---- MODULE Spec2Model ----
(***************************************************************************)
(* Model of the wallet's redux store (src/src/reducers/index.js): the      *)
(* aggregate state, the root reducer and every handler it dispatches to.   *)
(*                                                                         *)
(* Encoding of JavaScript values                                           *)
(*   object            record / function over its own keys (key absent =   *)
(*                     not in DOMAIN)                                      *)
(*   array             sequence; an array that is stored where an object   *)
(*                     is expected is the record [array |-> elements] plus *)
(*                     its non-index own properties (see ArrayObject)      *)
(*   null, undefined   the strings "null" / "undefined" in fields whose    *)
(*                     other values are scalars; nullObject in fields      *)
(*                     whose other values are objects                      *)
(*   boolean that may be undefined: the strings "true" / "false"           *)
(*   opaque scalars (addresses, routes, configs ...): strings              *)
(***************************************************************************)
EXTENDS Integers, Sequences, FiniteSets, TLC

VARIABLES
  state,       \* the redux state (the aggregate)
  prev,        \* the state the last dispatched action was applied to
  last,        \* the last dispatched action, keyed by its type
  threw,       \* TRUE iff the reducer raised while handling `last`
  now,         \* the clock read by new Date().getTime()
  budget,      \* number of dispatches still allowed in this behaviour
  invoked,     \* calls made to lock-wallet resolvers: <<resolver, result>>
  localStore,  \* LOCAL_STORE, the persistent storage written by the reducer
  epoch,       \* orchestrator: per fetch kind and token, the tag of the newest request
  inflight,    \* orchestrator: the fetches that wait for their response
  discarded,   \* orchestrator: the responses dropped as stale
  armed,       \* the resolvers armed by lock_wallet_for_result, in order
  walletStorage, \* the uids registered in the wallet's storage, in insertion order
  tokenCalls   \* the addToken / unregisterToken calls, each at one of its await points

storeVars == <<state, prev, last, threw, now, budget, invoked, localStore, armed>>
syncVars == <<epoch, inflight, discarded>>
tokenVars == <<walletStorage, tokenCalls>>
vars == <<state, prev, last, threw, now, budget, invoked, localStore, armed,
          epoch, inflight, discarded, walletStorage, tokenCalls>>

----------------------------------------------------------------------------
\* Bounds of the model

MaxSteps == 2        \* dispatches per behaviour, whole alphabet
MaxSelectSteps == 3  \* dispatches per behaviour, balance and selection alphabet
MaxSyncSteps == 4    \* dispatches per behaviour, orchestrated fetches
MaxSessionSteps == 4 \* dispatches per behaviour, session alphabet
MaxStatusSteps == 2  \* dispatches per behaviour, status transitions
MaxCalls == 2        \* addToken / unregisterToken calls per behaviour
MaxEpoch == 2        \* requests and invalidations per fetch kind and token
MaxNow == 1          \* the clock runs over 0..MaxNow

----------------------------------------------------------------------------
\* JavaScript values

undefined == "undefined"
null == "null"
nullObject == [null |-> TRUE]
EmptyObject == <<>>

\* obj[key] / lodash get(obj, key, default)
get(obj, key, default) == IF key \in DOMAIN obj THEN obj[key] ELSE default

\* Object.assign({}, a, b) and {...a, ...b}: keys of b win
Assign(a, b) == b @@ a

\* delete obj[key]
Delete(obj, key) == [k \in DOMAIN obj \ {key} |-> obj[k]]

\* An array value held in a map of objects
IsArray(v) == "array" \in DOMAIN v
ArrayObject(elems) == [array |-> elems]

\* {...v}: own enumerable properties of v (an array contributes its indexes
\* "0", "1", ... and its non-index properties)
Spread(v) ==
  IF IsArray(v)
    THEN [k \in {ToString(i - 1) : i \in 1..Len(v.array)} |->
            v.array[CHOOSE i \in 1..Len(v.array) : ToString(i - 1) = k]]
         @@ Delete(v, "array")
    ELSE v

\* Array.prototype.findIndex / lodash findIndex by a string field: 0-based, -1 on a miss
findIndex(elems, field, value) ==
  IF \E i \in 1..Len(elems) : elems[i][field] = value
    THEN (CHOOSE i \in 1..Len(elems) :
            /\ elems[i][field] = value
            /\ \A j \in 1..(i - 1) : elems[j][field] # value) - 1
    ELSE -1

----------------------------------------------------------------------------
\* Imported constants

NATIVE_TOKEN_UID == "00"
VERSION == "version"
FEATURE_TOGGLE_DEFAULTS == [toggle |-> FALSE]
TOKEN_DOWNLOAD_STATUS ==
  [READY |-> "ready", FAILED |-> "failed", LOADING |-> "loading", INVALIDATED |-> "invalidated"]
PROPOSAL_DOWNLOAD_STATUS ==
  [READY |-> "ready", FAILED |-> "failed", LOADING |-> "loading", INVALIDATED |-> "invalidated"]
WALLET_STATUS == [READY |-> "ready", FAILED |-> "failed", LOADING |-> "loading"]

initialState ==
  [ tokensHistory |-> EmptyObject,
    tokensBalance |-> EmptyObject,
    lastSharedAddress |-> null,
    lastSharedIndex |-> null,
    isVersionAllowed |-> undefined,
    isOnline |-> FALSE,
    network |-> undefined,
    lastFailedRequest |-> undefined,
    requestErrorStatusCode |-> undefined,
    tokens |-> <<>>,
    selectedToken |-> NATIVE_TOKEN_UID,
    allTokens |-> EmptyObject,
    loadingAddresses |-> FALSE,
    loadedData |-> [transactions |-> 0, addresses |-> 0],
    height |-> 0,
    walletState |-> null,
    tokenMetadata |-> EmptyObject,
    tokenMetadataErrors |-> <<>>,
    metadataLoaded |-> FALSE,
    useWalletService |-> FALSE,
    lockWalletPromise |-> null,
    ledgerWasClosed |-> FALSE,
    serverInfo |-> [network |-> null, version |-> null],
    startWalletAction |-> nullObject,
    navigateTo |-> [route |-> "", replace |-> FALSE],
    useAtomicSwap |-> FALSE,
    proposals |-> EmptyObject,
    tokensCache |-> EmptyObject,
    featureTogglesInitialized |-> FALSE,
    featureToggles |-> FEATURE_TOGGLE_DEFAULTS,
    miningServer |-> null,
    nativeTokenData |-> nullObject ]

----------------------------------------------------------------------------
\* Action types (src/src/actions, imported as `types`)

types ==
  [ SET_SERVER_INFO |-> "SET_SERVER_INFO",
    TOKEN_FETCH_BALANCE_REQUESTED |-> "TOKEN_FETCH_BALANCE_REQUESTED",
    TOKEN_FETCH_BALANCE_SUCCESS |-> "TOKEN_FETCH_BALANCE_SUCCESS",
    TOKEN_FETCH_BALANCE_FAILED |-> "TOKEN_FETCH_BALANCE_FAILED",
    TOKEN_FETCH_HISTORY_REQUESTED |-> "TOKEN_FETCH_HISTORY_REQUESTED",
    TOKEN_FETCH_HISTORY_SUCCESS |-> "TOKEN_FETCH_HISTORY_SUCCESS",
    TOKEN_FETCH_HISTORY_FAILED |-> "TOKEN_FETCH_HISTORY_FAILED",
    SET_ENABLE_ATOMIC_SWAP |-> "SET_ENABLE_ATOMIC_SWAP",
    PROPOSAL_LIST_UPDATED |-> "PROPOSAL_LIST_UPDATED",
    PROPOSAL_FETCH_REQUESTED |-> "PROPOSAL_FETCH_REQUESTED",
    PROPOSAL_FETCH_SUCCESS |-> "PROPOSAL_FETCH_SUCCESS",
    PROPOSAL_FETCH_FAILED |-> "PROPOSAL_FETCH_FAILED",
    PROPOSAL_UPDATED |-> "PROPOSAL_UPDATED",
    PROPOSAL_TOKEN_FETCH_REQUESTED |-> "PROPOSAL_TOKEN_FETCH_REQUESTED",
    PROPOSAL_TOKEN_FETCH_SUCCESS |-> "PROPOSAL_TOKEN_FETCH_SUCCESS",
    PROPOSAL_TOKEN_FETCH_FAILED |-> "PROPOSAL_TOKEN_FETCH_FAILED",
    PROPOSAL_REMOVED |-> "PROPOSAL_REMOVED",
    PROPOSAL_IMPORTED |-> "PROPOSAL_IMPORTED",
    TOKEN_INVALIDATE_HISTORY |-> "TOKEN_INVALIDATE_HISTORY",
    TOKEN_INVALIDATE_BALANCE |-> "TOKEN_INVALIDATE_BALANCE",
    ON_START_WALLET_LOCK |-> "ON_START_WALLET_LOCK",
    START_WALLET_REQUESTED |-> "START_WALLET_REQUESTED",
    START_WALLET_SUCCESS |-> "START_WALLET_SUCCESS",
    START_WALLET_FAILED |-> "START_WALLET_FAILED",
    WALLET_BEST_BLOCK_UPDATE |-> "WALLET_BEST_BLOCK_UPDATE",
    SET_NAVIGATE_TO |-> "SET_NAVIGATE_TO",
    SET_UNLEASH_CLIENT |-> "SET_UNLEASH_CLIENT",
    SET_FEATURE_TOGGLES |-> "SET_FEATURE_TOGGLES",
    FEATURE_TOGGLE_INITIALIZED |-> "FEATURE_TOGGLE_INITIALIZED",
    UPDATE_TX_HISTORY |-> "UPDATE_TX_HISTORY",
    WALLET_CHANGE_STATE |-> "WALLET_CHANGE_STATE",
    SET_MINING_SERVER |-> "SET_MINING_SERVER",
    SET_NATIVE_TOKEN_DATA |-> "SET_NATIVE_TOKEN_DATA" ]

----------------------------------------------------------------------------
\* Handlers, in source order.  Each is the state the handler returns; the
\* cases in which a handler raises instead are the ...Throws predicates.

\* helpersUtils.isAllAuthority(tx): a function of the tx's inputs and outputs
isAllAuthority(tx) == tx.allAuthority

getTxHistoryFromWSTx(tx, tokenUid, tokenTxBalance) ==
  [ version |-> tx.version,
    isAllAuthority |-> isAllAuthority(tx),
    tokenUid |-> tokenUid,
    tx_id |-> tx.tx_id,
    timestamp |-> tx.timestamp,
    balance |-> tokenTxBalance,
    is_voided |-> tx.is_voided ]

onLoadWalletSuccess(s, action) ==
  Assign(s, [ loadingAddresses |-> FALSE,
              lastSharedAddress |-> action.payload.currentAddress.address,
              lastSharedIndex |-> action.payload.currentAddress.index,
              allTokens |-> action.payload.tokens,
              tokens |-> action.payload.registeredTokens ])

\* LOCAL_STORE.setWalletVersion(VERSION), the storage write of onLoadWalletSuccess
setWalletVersion(store, version) == [store EXCEPT !.walletVersion = version]

\* The loop body of onUpdateTx for one token: `state.tokensHistory[tokenUid] || []`,
\* findIndex, copy of the indexed elements, write at txIndex (a write at -1
\* creates the property "-1" and leaves the elements alone)
updatedHistory(s, tx, tokenUid, tokenTxBalance) ==
  LET currentHistory == get(s.tokensHistory, tokenUid, ArrayObject(<<>>))
      txIndex == findIndex(currentHistory.array, "tx_id", tx.tx_id)
      entry == getTxHistoryFromWSTx(tx, tokenUid, tokenTxBalance)
  IN IF txIndex = -1
       THEN ("-1" :> entry) @@ ArrayObject(currentHistory.array)
       ELSE ArrayObject([currentHistory.array EXCEPT ![txIndex + 1] = entry])

\* currentHistory.findIndex is not a function when the token's entry is a
\* TokenHistory object and not an array
onUpdateTxThrows(s, action) ==
  \E tokenUid \in DOMAIN action.payload.balances :
    /\ tokenUid \in DOMAIN s.tokensHistory
    /\ ~IsArray(s.tokensHistory[tokenUid])

onUpdateTx(s, action) ==
  LET tx == action.payload.tx
      balances == action.payload.balances
      updatedHistoryMap ==
        [tokenUid \in DOMAIN balances |-> updatedHistory(s, tx, tokenUid, balances[tokenUid])]
      newTokensHistory == Assign(s.tokensHistory, updatedHistoryMap)
      newTokensBalance == Assign(s.tokensBalance, action.payload.updatedBalanceMap)
  IN Assign(s, [tokensHistory |-> newTokensHistory, tokensBalance |-> newTokensBalance])

onUpdateLoadedData(s, action) == Assign(s, [loadedData |-> action.payload])

\* onCleanData with ledgerWasClosed left out of the copied fields
onCleanData_forgetsLedger(s) ==
  Assign(initialState, [ isVersionAllowed |-> s.isVersionAllowed,
                         loadingAddresses |-> s.loadingAddresses,
                         featureTogglesInitialized |-> s.featureTogglesInitialized ])

onCleanData(s) ==
  Assign(initialState, [ isVersionAllowed |-> s.isVersionAllowed,
                         loadingAddresses |-> s.loadingAddresses,
                         ledgerWasClosed |-> s.ledgerWasClosed,
                         featureTogglesInitialized |-> s.featureTogglesInitialized ])

\* onUpdateTokenHistory without the spread of the data already held
onUpdateTokenHistory_replacesData(s, action) ==
  LET token == action.payload.token
      current == get(s.tokensHistory, token, EmptyObject)
  IN Assign(s, [tokensHistory |->
       Assign(s.tokensHistory,
              token :> Assign(Spread(current), [data |-> action.payload.newHistory]))])

onUpdateTokenHistory(s, action) ==
  LET token == action.payload.token
      current == get(s.tokensHistory, token, EmptyObject)
  IN Assign(s, [tokensHistory |->
       Assign(s.tokensHistory,
              token :> Assign(Spread(current),
                              [data |-> get(current, "data", <<>>) \o action.payload.newHistory]))])

\* onUpdateHeight without the comparison of the two heights
onUpdateHeight_ignoresEquality(s, action) ==
  Assign(s, [ tokensBalance |->
                Assign(s.tokensBalance, NATIVE_TOKEN_UID :> action.payload.htrUpdatedBalance),
              height |-> action.payload.height ])

\* onUpdateHeight writing the height and leaving the native balance for later
onUpdateHeight_heightOnly(s, action) ==
  IF action.payload.height # s.height
    THEN Assign(s, [height |-> action.payload.height])
    ELSE s

onUpdateHeight(s, action) ==
  IF action.payload.height # s.height
    THEN Assign(s, [ tokensBalance |->
                       Assign(s.tokensBalance, NATIVE_TOKEN_UID :> action.payload.htrUpdatedBalance),
                     height |-> action.payload.height ])
    ELSE s

tokenMetadataUpdated(s, action) ==
  Assign(s, [ metadataLoaded |-> TRUE,
              tokenMetadata |-> Assign(s.tokenMetadata, action.payload.data),
              tokenMetadataErrors |-> s.tokenMetadataErrors \o action.payload.errors ])

\* The copy of tokensBalance that the handler edits is not part of what it returns
removeTokenMetadata(s, action) ==
  LET uid == action.payload
      newMeta == IF uid \in DOMAIN s.tokenMetadata THEN Delete(s.tokenMetadata, uid)
                                                   ELSE s.tokenMetadata
  IN Assign(s, [tokenMetadata |-> newMeta])

\* partiallyUpdateHistoryAndBalance merging each record with the one already held
partiallyUpdateHistoryAndBalance_fieldMerge(s, action) ==
  LET merge(old, new) ==
        [key \in DOMAIN new |-> Assign(get(old, key, EmptyObject), new[key])]
  IN Assign(s, [ tokensHistory |->
                   Assign(s.tokensHistory, merge(s.tokensHistory, action.payload.tokensHistory)),
                 tokensBalance |->
                   Assign(s.tokensBalance, merge(s.tokensBalance, action.payload.tokensBalance)) ])

partiallyUpdateHistoryAndBalance(s, action) ==
  Assign(s, [ tokensHistory |-> Assign(s.tokensHistory, action.payload.tokensHistory),
              tokensBalance |-> Assign(s.tokensBalance, action.payload.tokensBalance) ])

onSetUseWalletService(s, action) == Assign(s, [useWalletService |-> action.payload])

\* a slot that keeps the resolver it already holds
onLockWalletForResult_keepsFirst(s, action) ==
  IF s.lockWalletPromise = null THEN Assign(s, [lockWalletPromise |-> action.payload]) ELSE s

onLockWalletForResult(s, action) == Assign(s, [lockWalletPromise |-> action.payload])

\* a guarded call, `state.lockWalletPromise && state.lockWalletPromise(...)`, never raises
onResolveLockWalletPromiseThrows_guarded(s, action) == FALSE

\* state.lockWalletPromise(action.payload) with lockWalletPromise = null
onResolveLockWalletPromiseThrows(s, action) == s.lockWalletPromise = null

onResolveLockWalletPromise(s, action) == Assign(s, [lockWalletPromise |-> null])

\* the call state.lockWalletPromise(action.payload) itself
callLockWalletPromise(calls, s, action) == Append(calls, <<s.lockWalletPromise, action.payload>>)

\* (balance.available + balance.locked) === 0; a missing operand makes the sum NaN
hasZeroBalance(balance) ==
  IF {"available", "locked"} \subseteq DOMAIN balance
    THEN balance.available + balance.locked = 0
    ELSE FALSE

resetSelectedTokenIfNeeded(s, action) ==
  LET balance == get(s.tokensBalance, s.selectedToken, [available |-> 0, locked |-> 0])
  IN IF hasZeroBalance(balance)
       THEN Assign(s, [selectedToken |-> NATIVE_TOKEN_UID])
       ELSE s

onNewTokens(s, action) ==
  LET newTokenUid == action.payload.uid
      allTokens == Assign(s.allTokens, newTokenUid :> newTokenUid)
  IN Assign(s, [ selectedToken |-> newTokenUid,
                 tokens |-> action.payload.tokens,
                 allTokens |-> allTokens ])

onTokenFetchBalanceRequested(s, action) ==
  LET tokenId == action.tokenId
      oldState == get(s.tokensBalance, tokenId, EmptyObject)
  IN Assign(s, [tokensBalance |->
       Assign(s.tokensBalance,
              tokenId :> Assign(Spread(oldState),
                                [ status |-> TOKEN_DOWNLOAD_STATUS.LOADING,
                                  oldStatus |-> get(oldState, "status", undefined) ]))])

\* onTokenFetchBalanceSuccess keeping the oldStatus already stored in the record
onTokenFetchBalanceSuccess_staleOldStatus(s, action, time) ==
  LET tokenId == action.tokenId
      oldState == get(s.tokensBalance, tokenId, EmptyObject)
  IN Assign(s, [tokensBalance |->
       Assign(s.tokensBalance,
              tokenId :> [ status |-> TOKEN_DOWNLOAD_STATUS.READY,
                           updatedAt |-> time,
                           data |-> action.data,
                           oldStatus |-> get(oldState, "oldStatus", undefined) ])])

onTokenFetchBalanceSuccess(s, action, time) ==
  LET tokenId == action.tokenId
      oldState == get(s.tokensBalance, tokenId, EmptyObject)
  IN Assign(s, [tokensBalance |->
       Assign(s.tokensBalance,
              tokenId :> [ status |-> TOKEN_DOWNLOAD_STATUS.READY,
                           updatedAt |-> time,
                           data |-> action.data,
                           oldStatus |-> get(oldState, "status", undefined) ])])

\* onTokenFetchBalanceFailed without the spread of the balances already held
onTokenFetchBalanceFailed_dropsOthers(s, action) ==
  LET tokenId == action.tokenId
      oldState == get(s.tokensBalance, tokenId, EmptyObject)
  IN Assign(s, [tokensBalance |->
       (tokenId :> [ status |-> TOKEN_DOWNLOAD_STATUS.FAILED,
                     oldStatus |-> get(oldState, "status", undefined) ])])

onTokenFetchBalanceFailed(s, action) ==
  LET tokenId == action.tokenId
      oldState == get(s.tokensBalance, tokenId, EmptyObject)
  IN Assign(s, [tokensBalance |->
       Assign(s.tokensBalance,
              tokenId :> [ status |-> TOKEN_DOWNLOAD_STATUS.FAILED,
                           oldStatus |-> get(oldState, "status", undefined) ])])

onTokenFetchHistorySuccess(s, action, time) ==
  LET tokenId == action.tokenId
      oldState == get(s.tokensHistory, tokenId, EmptyObject)
  IN Assign(s, [tokensHistory |->
       Assign(s.tokensHistory,
              tokenId :> [ status |-> TOKEN_DOWNLOAD_STATUS.READY,
                           updatedAt |-> time,
                           data |-> action.data,
                           oldStatus |-> get(oldState, "status", undefined) ])])

onTokenFetchHistoryFailed(s, action) ==
  LET tokenId == action.tokenId
      oldState == get(s.tokensHistory, tokenId, EmptyObject)
  IN Assign(s, [tokensHistory |->
       Assign(s.tokensHistory,
              tokenId :> [ status |-> TOKEN_DOWNLOAD_STATUS.FAILED,
                           data |-> <<>>,
                           oldStatus |-> get(oldState, "status", undefined) ])])

\* onTokenFetchHistoryRequested building the LOADING record without the spread of
\* the old one
onTokenFetchHistoryRequested_dropsData(s, action) ==
  LET tokenId == action.tokenId
      oldState == get(s.tokensHistory, tokenId, EmptyObject)
  IN Assign(s, [tokensHistory |->
       Assign(s.tokensHistory,
              tokenId :> [ status |-> TOKEN_DOWNLOAD_STATUS.LOADING,
                           oldStatus |-> get(oldState, "status", undefined) ])])

onTokenFetchHistoryRequested(s, action) ==
  LET tokenId == action.tokenId
      oldState == get(s.tokensHistory, tokenId, EmptyObject)
  IN Assign(s, [tokensHistory |->
       Assign(s.tokensHistory,
              tokenId :> Assign(Spread(oldState),
                                [ status |-> TOKEN_DOWNLOAD_STATUS.LOADING,
                                  oldStatus |-> get(oldState, "status", undefined) ]))])

onSetUseAtomicSwap(s, action) == Assign(s, [useAtomicSwap |-> action.payload])

onProposalListUpdated(s, action) == Assign(s, [proposals |-> action.listenedProposalsMap])

onProposalFetchRequested(s, action) ==
  LET proposalId == action.proposalId
      oldState == get(s.proposals, proposalId, [id |-> proposalId])
  IN Assign(s, [proposals |->
       Assign(s.proposals,
              proposalId :> Assign(oldState,
                                   [ status |-> PROPOSAL_DOWNLOAD_STATUS.LOADING,
                                     oldStatus |-> get(oldState, "status", undefined) ]))])

onProposalFetchSuccess(s, action, time) ==
  LET proposalId == action.proposalId
      oldState == get(s.proposals, proposalId, [id |-> proposalId])
  IN Assign(s, [proposals |->
       Assign(s.proposals,
              proposalId :> Assign(oldState,
                                   [ status |-> PROPOSAL_DOWNLOAD_STATUS.READY,
                                     updatedAt |-> time,
                                     data |-> action.data ]))])

\* onProposalFetchFailed building the failed record without the password
onProposalFetchFailed_dropsPassword(s, action, time) ==
  LET proposalId == action.proposalId
  IN Assign(s, [proposals |->
       Assign(s.proposals,
              proposalId :> [ id |-> proposalId,
                              status |-> PROPOSAL_DOWNLOAD_STATUS.FAILED,
                              errorMessage |-> action.errorMessage,
                              updatedAt |-> time ])])

onProposalFetchFailed(s, action, time) ==
  LET proposalId == action.proposalId
      password == get(get(s.proposals, proposalId, [id |-> proposalId]), "password", undefined)
  IN Assign(s, [proposals |->
       Assign(s.proposals,
              proposalId :> [ id |-> proposalId,
                              password |-> password,
                              status |-> PROPOSAL_DOWNLOAD_STATUS.FAILED,
                              errorMessage |-> action.errorMessage,
                              updatedAt |-> time ])])

onProposalUpdate(s, action, time) ==
  LET proposalId == action.proposalId
      oldState == get(s.proposals, proposalId, [id |-> proposalId])
  IN Assign(s, [proposals |->
       Assign(s.proposals,
              proposalId :> Assign(oldState, [updatedAt |-> time, data |-> action.data]))])

onProposalTokenFetchRequested(s, action) ==
  LET tokenUid == action.tokenUid
      oldState == get(s.tokensCache, tokenUid,
                      [ tokenUid |-> tokenUid, symbol |-> "", name |-> "",
                        status |-> TOKEN_DOWNLOAD_STATUS.LOADING ])
  IN Assign(s, [tokensCache |->
       Assign(s.tokensCache,
              tokenUid :> Assign(oldState,
                                 [ status |-> TOKEN_DOWNLOAD_STATUS.LOADING,
                                   oldStatus |-> get(oldState, "status", undefined) ]))])

onProposalTokenFetchSuccess(s, action) ==
  LET tokenUid == action.tokenUid
  IN Assign(s, [tokensCache |->
       Assign(s.tokensCache,
              tokenUid :> [ tokenUid |-> tokenUid,
                            symbol |-> action.data.symbol,
                            name |-> action.data.name,
                            status |-> TOKEN_DOWNLOAD_STATUS.READY ])])

onProposalTokenFetchFailed(s, action) ==
  LET tokenUid == action.tokenUid
  IN Assign(s, [tokensCache |->
       Assign(s.tokensCache,
              tokenUid :> [ id |-> tokenUid,
                            symbol |-> "",
                            name |-> "",
                            status |-> TOKEN_DOWNLOAD_STATUS.FAILED,
                            errorMessage |-> action.errorMessage ])])

\* onProposalImported without the spread of the proposals already held
onProposalImported_replacesMap(s, action) ==
  Assign(s, [proposals |->
    (action.proposalId :> [ id |-> action.proposalId,
                            password |-> action.password,
                            status |-> PROPOSAL_DOWNLOAD_STATUS.INVALIDATED ])])

onProposalImported(s, action) ==
  Assign(s, [proposals |->
    Assign(s.proposals,
           action.proposalId :> [ id |-> action.proposalId,
                                  password |-> action.password,
                                  status |-> PROPOSAL_DOWNLOAD_STATUS.INVALIDATED ])])

onProposalRemoved(s, action) ==
  Assign(s, [proposals |-> Delete(s.proposals, action.proposalId)])

onStartWalletLock(s) == Assign(s, [walletStartState |-> WALLET_STATUS.LOADING])

\* onStartWalletRequested marking the wallet started as it stores the action
onStartWalletRequested_marksReady(s, action) ==
  Assign(s, [walletStartState |-> WALLET_STATUS.READY, startWalletAction |-> action])

onStartWalletRequested(s, action) ==
  Assign(s, [walletStartState |-> WALLET_STATUS.LOADING, startWalletAction |-> action])

\* onStartWalletSuccess without the line that removes the action
onStartWalletSuccess_keepsAction(s) == Assign(s, [walletStartState |-> WALLET_STATUS.READY])

onStartWalletSuccess(s) ==
  Assign(s, [walletStartState |-> WALLET_STATUS.READY, startWalletAction |-> nullObject])

\* onStartWalletFailed clearing the stored action as onStartWalletSuccess does
onStartWalletFailed_dropsAction(s) ==
  Assign(s, [walletStartState |-> WALLET_STATUS.FAILED, startWalletAction |-> nullObject])

onStartWalletFailed(s) == Assign(s, [walletStartState |-> WALLET_STATUS.FAILED])

\* onTokenInvalidateBalance returning the state it was given
onTokenInvalidateBalance_keepsRecord(s, action) == s

onTokenInvalidateBalance(s, action) ==
  Assign(s, [tokensBalance |->
    Assign(s.tokensBalance,
           action.tokenId :> [status |-> TOKEN_DOWNLOAD_STATUS.INVALIDATED])])

onTokenInvalidateHistory(s, action) ==
  Assign(s, [tokensHistory |->
    Assign(s.tokensHistory,
           action.tokenId :> [status |-> TOKEN_DOWNLOAD_STATUS.INVALIDATED])])

onWalletBestBlockUpdate(s, action) == Assign(s, [height |-> action.data])

onSetNavigateTo(s, action) ==
  Assign(s, [navigateTo |-> [route |-> action.route, replace |-> action.replace]])

onSetServerInfo(s, action) ==
  Assign(s, [serverInfo |-> [ network |-> action.payload.network,
                              version |-> action.payload.version ]])

onFeatureToggleInitialized(s) == Assign(s, [featureTogglesInitialized |-> TRUE])

onSetFeatureToggles(s, action) == Assign(s, [featureToggles |-> action.payload])

\* [...tokenHistory.data] when the token's entry has no data
onUpdateTxHistoryThrows(s, action) ==
  /\ action.payload.tokenId \in DOMAIN s.tokensHistory
  /\ "data" \notin DOMAIN s.tokensHistory[action.payload.tokenId]

\* onUpdateTxHistory returning a record made of the new data alone
onUpdateTxHistory_dropsStatus(s, action) ==
  LET tx == action.payload.tx
      tokenId == action.payload.tokenId
  IN IF tokenId \notin DOMAIN s.tokensHistory
       THEN s
       ELSE LET tokenHistory == s.tokensHistory[tokenId]
                index == findIndex(tokenHistory.data, "tx_id", tx.tx_id)
                newTokenHistoryData ==
                  IF index = -1
                    THEN tokenHistory.data
                    ELSE [tokenHistory.data EXCEPT ![index + 1] =
                            getTxHistoryFromWSTx(tx, tokenId, action.payload.balance)]
            IN Assign(s, [tokensHistory |->
                 Assign(s.tokensHistory, tokenId :> [data |-> newTokenHistoryData])])

\* onUpdateTxHistory pushing the rebuilt entry instead of writing it at the index
onUpdateTxHistory_appends(s, action) ==
  LET tx == action.payload.tx
      tokenId == action.payload.tokenId
  IN IF tokenId \notin DOMAIN s.tokensHistory
       THEN s
       ELSE LET tokenHistory == s.tokensHistory[tokenId]
                index == findIndex(tokenHistory.data, "tx_id", tx.tx_id)
                newTokenHistoryData ==
                  IF index = -1
                    THEN tokenHistory.data
                    ELSE Append(tokenHistory.data,
                                getTxHistoryFromWSTx(tx, tokenId, action.payload.balance))
            IN Assign(s, [tokensHistory |->
                 Assign(s.tokensHistory,
                        tokenId :> Assign(tokenHistory, [data |-> newTokenHistoryData]))])

onUpdateTxHistory(s, action) ==
  LET tx == action.payload.tx
      tokenId == action.payload.tokenId
  IN IF tokenId \notin DOMAIN s.tokensHistory
       THEN s
       ELSE LET tokenHistory == s.tokensHistory[tokenId]
                index == findIndex(tokenHistory.data, "tx_id", tx.tx_id)
                newTokenHistoryData ==
                  IF index = -1
                    THEN tokenHistory.data
                    ELSE [tokenHistory.data EXCEPT ![index + 1] =
                            getTxHistoryFromWSTx(tx, tokenId, action.payload.balance)]
            IN Assign(s, [tokensHistory |->
                 Assign(s.tokensHistory,
                        tokenId :> Assign(tokenHistory, [data |-> newTokenHistoryData]))])

onWalletStateChanged(s, action) == Assign(s, [walletState |-> action.payload])

onSetMiningServer(s, action) == Assign(s, [miningServer |-> action.payload])

onSetNativeTokenData(s, action) ==
  LET payload == action.payload
      nativeTokenIndex == findIndex(s.tokens, "uid", NATIVE_TOKEN_UID)
      native == Assign(payload, [uid |-> NATIVE_TOKEN_UID])
      tokens == IF nativeTokenIndex = -1
                  THEN <<native>> \o s.tokens
                  ELSE [s.tokens EXCEPT ![nativeTokenIndex + 1] = native]
  IN Assign(s, [ nativeTokenData |-> payload,
                 tokens |-> tokens,
                 tokensCache |->
                   Assign(s.tokensCache,
                          NATIVE_TOKEN_UID :> [ tokenUid |-> NATIVE_TOKEN_UID,
                                                symbol |-> payload.symbol,
                                                name |-> payload.name,
                                                status |-> TOKEN_DOWNLOAD_STATUS.READY ])])

----------------------------------------------------------------------------
\* The root reducer

\* the default case falling through to a reset
rootReducerDefault_resets(s) == initialState

\* `default: return state`
rootReducerDefault(s) == s

\* onSetUnleashClient is called by rootReducer and defined nowhere: ReferenceError
onSetUnleashClientThrows(s, action) == TRUE

rootReducerThrows(s, action) ==
  CASE action.type = "update_tx" -> onUpdateTxThrows(s, action)
    [] action.type = "resolve_lock_wallet_promise" -> onResolveLockWalletPromiseThrows(s, action)
    [] action.type = types.UPDATE_TX_HISTORY -> onUpdateTxHistoryThrows(s, action)
    [] action.type = types.SET_UNLEASH_CLIENT -> onSetUnleashClientThrows(s, action)
    [] OTHER -> FALSE

rootReducer(s, action, time) ==
  CASE action.type = "history_update" ->
         Assign(s, [ allTokens |-> action.payload.allTokens,
                     lastSharedIndex |-> action.payload.lastSharedIndex,
                     lastSharedAddress |-> action.payload.lastSharedAddress,
                     addressesFound |-> action.payload.addressesFound,
                     transactionsFound |-> action.payload.transactionsFound ])
    [] action.type = "shared_address" ->
         Assign(s, [ lastSharedAddress |-> action.payload.lastSharedAddress,
                     lastSharedIndex |-> action.payload.lastSharedIndex ])
    [] action.type = "is_version_allowed_update" ->
         Assign(s, [isVersionAllowed |-> action.payload.allowed])
    [] action.type = "is_online_update" -> Assign(s, [isOnline |-> action.payload.isOnline])
    [] action.type = "network_update" -> Assign(s, [network |-> action.payload.network])
    [] action.type = "reload_data" -> Assign(s, action.payload)
    [] action.type = "clean_data" -> onCleanData(s)
    [] action.type = "last_failed_request" -> Assign(s, [lastFailedRequest |-> action.payload])
    [] action.type = "select_token" -> Assign(s, [selectedToken |-> action.payload])
    [] action.type = "new_tokens" -> onNewTokens(s, action)
    [] action.type = "loading_addresses_update" -> Assign(s, [loadingAddresses |-> action.payload])
    [] action.type = "update_loaded_data" -> onUpdateLoadedData(s, action)
    [] action.type = "update_request_error_status_code" ->
         Assign(s, [requestErrorStatusCode |-> action.payload])
    [] action.type = "update_height" -> onUpdateHeight(s, action)
    [] action.type = "load_wallet_success" -> onLoadWalletSuccess(s, action)
    [] action.type = "update_tx" -> onUpdateTx(s, action)
    [] action.type = "update_token_history" -> onUpdateTokenHistory(s, action)
    [] action.type = "token_metadata_updated" -> tokenMetadataUpdated(s, action)
    [] action.type = "metadata_loaded" -> Assign(s, [metadataLoaded |-> action.payload])
    [] action.type = "remove_token_metadata" -> removeTokenMetadata(s, action)
    [] action.type = "partially_update_history_and_balance" ->
         partiallyUpdateHistoryAndBalance(s, action)
    [] action.type = "set_use_wallet_service" -> onSetUseWalletService(s, action)
    [] action.type = "lock_wallet_for_result" -> onLockWalletForResult(s, action)
    [] action.type = "resolve_lock_wallet_promise" -> onResolveLockWalletPromise(s, action)
    [] action.type = "reset_selected_token_if_needed" -> resetSelectedTokenIfNeeded(s, action)
    [] action.type = "set_ledger_was_closed" -> Assign(s, [ledgerWasClosed |-> action.payload])
    [] action.type = types.SET_SERVER_INFO -> onSetServerInfo(s, action)
    [] action.type = types.TOKEN_FETCH_BALANCE_REQUESTED -> onTokenFetchBalanceRequested(s, action)
    [] action.type = types.TOKEN_FETCH_BALANCE_SUCCESS -> onTokenFetchBalanceSuccess(s, action, time)
    [] action.type = types.TOKEN_FETCH_BALANCE_FAILED -> onTokenFetchBalanceFailed(s, action)
    [] action.type = types.TOKEN_FETCH_HISTORY_REQUESTED -> onTokenFetchHistoryRequested(s, action)
    [] action.type = types.TOKEN_FETCH_HISTORY_SUCCESS -> onTokenFetchHistorySuccess(s, action, time)
    [] action.type = types.TOKEN_FETCH_HISTORY_FAILED -> onTokenFetchHistoryFailed(s, action)
    [] action.type = types.SET_ENABLE_ATOMIC_SWAP -> onSetUseAtomicSwap(s, action)
    [] action.type = types.PROPOSAL_LIST_UPDATED -> onProposalListUpdated(s, action)
    [] action.type = types.PROPOSAL_FETCH_REQUESTED -> onProposalFetchRequested(s, action)
    [] action.type = types.PROPOSAL_FETCH_SUCCESS -> onProposalFetchSuccess(s, action, time)
    [] action.type = types.PROPOSAL_FETCH_FAILED -> onProposalFetchFailed(s, action, time)
    [] action.type = types.PROPOSAL_UPDATED -> onProposalUpdate(s, action, time)
    [] action.type = types.PROPOSAL_TOKEN_FETCH_REQUESTED -> onProposalTokenFetchRequested(s, action)
    [] action.type = types.PROPOSAL_TOKEN_FETCH_SUCCESS -> onProposalTokenFetchSuccess(s, action)
    [] action.type = types.PROPOSAL_TOKEN_FETCH_FAILED -> onProposalTokenFetchFailed(s, action)
    [] action.type = types.PROPOSAL_REMOVED -> onProposalRemoved(s, action)
    [] action.type = types.PROPOSAL_IMPORTED -> onProposalImported(s, action)
    [] action.type = types.TOKEN_INVALIDATE_HISTORY -> onTokenInvalidateHistory(s, action)
    [] action.type = types.TOKEN_INVALIDATE_BALANCE -> onTokenInvalidateBalance(s, action)
    [] action.type = types.ON_START_WALLET_LOCK -> onStartWalletLock(s)
    [] action.type = types.START_WALLET_REQUESTED -> onStartWalletRequested(s, action)
    [] action.type = types.START_WALLET_SUCCESS -> onStartWalletSuccess(s)
    [] action.type = types.START_WALLET_FAILED -> onStartWalletFailed(s)
    [] action.type = types.WALLET_BEST_BLOCK_UPDATE -> onWalletBestBlockUpdate(s, action)
    [] action.type = types.SET_NAVIGATE_TO -> onSetNavigateTo(s, action)
    [] action.type = types.SET_FEATURE_TOGGLES -> onSetFeatureToggles(s, action)
    [] action.type = types.FEATURE_TOGGLE_INITIALIZED -> onFeatureToggleInitialized(s)
    [] action.type = types.UPDATE_TX_HISTORY -> onUpdateTxHistory(s, action)
    [] action.type = types.WALLET_CHANGE_STATE -> onWalletStateChanged(s, action)
    [] action.type = types.SET_MINING_SERVER -> onSetMiningServer(s, action)
    [] action.type = types.SET_NATIVE_TOKEN_DATA -> onSetNativeTokenData(s, action)
    [] OTHER -> rootReducerDefault(s)

\* the case labels of rootReducer
HandledTypes ==
  { "history_update", "shared_address", "is_version_allowed_update", "is_online_update",
    "network_update", "reload_data", "clean_data", "last_failed_request", "select_token",
    "new_tokens", "loading_addresses_update", "update_loaded_data",
    "update_request_error_status_code", "update_height", "load_wallet_success", "update_tx",
    "update_token_history", "token_metadata_updated", "metadata_loaded",
    "remove_token_metadata", "partially_update_history_and_balance",
    "set_use_wallet_service", "lock_wallet_for_result", "resolve_lock_wallet_promise",
    "reset_selected_token_if_needed", "set_ledger_was_closed" }
  \cup {types[name] : name \in DOMAIN types}

\* The writes a handler makes outside the state before it returns
reducerCalls(calls, s, action) ==
  IF action.type = "resolve_lock_wallet_promise"
    THEN callLockWalletPromise(calls, s, action)
    ELSE calls

reducerStore(store, action) ==
  IF action.type = "load_wallet_success" THEN setWalletVersion(store, VERSION) ELSE store

\* The resolvers lock_wallet_for_result has stored so far (a history of the slot)
reducerArms(arms, action) ==
  IF action.type = "lock_wallet_for_result" THEN Append(arms, action.payload) ELSE arms

----------------------------------------------------------------------------
\* store.dispatch(action): the reducer is applied to the current state; when
\* it raises, the store keeps its state and the error reaches the caller.

Reduce(action) ==
  /\ budget' = budget - 1
  /\ prev' = state
  /\ last' = (action.type :> action)
  /\ IF rootReducerThrows(state, action)
       THEN /\ threw' = TRUE
            /\ UNCHANGED <<state, invoked, localStore, armed>>
       ELSE /\ threw' = FALSE
            /\ armed' = reducerArms(armed, action)
            /\ state' = rootReducer(state, action, now)
            /\ invoked' = reducerCalls(invoked, state, action)
            /\ localStore' = reducerStore(localStore, action)
  /\ UNCHANGED now

Dispatch(action) == Reduce(action) /\ UNCHANGED syncVars /\ UNCHANGED tokenVars

\* two store.dispatch calls made one after the other with no await in between;
\* neither action is one the reducer raises on
ReduceBoth(first, second) ==
  /\ budget' = budget - 2
  /\ prev' = rootReducer(state, first, now)
  /\ last' = (second.type :> second)
  /\ threw' = FALSE
  /\ state' = rootReducer(rootReducer(state, first, now), second, now)
  /\ UNCHANGED <<now, invoked, localStore, armed>>

lastType == CHOOSE type \in DOMAIN last : TRUE
lastAction == last[lastType]

\* Time passes between two dispatches
Tick ==
  /\ now < MaxNow
  /\ now' = now + 1
  /\ UNCHANGED <<state, prev, last, threw, budget, invoked, localStore, armed>>
  /\ UNCHANGED syncVars
  /\ UNCHANGED tokenVars

----------------------------------------------------------------------------
\* Payloads the callers dispatch (small sets of each documented shape)

TokenUids == {NATIVE_TOKEN_UID, "t1"}
TxIds == {"tx1", "tx2"}
ProposalIds == {"p1", "p2"}
Resolvers == {"r1", "r2"}
UnknownTypes == {"unknown_action", "@@redux/PROBE"}

HTR == [uid |-> NATIVE_TOKEN_UID, symbol |-> "HTR", name |-> "Hathor"]
T1 == [uid |-> "t1", symbol |-> "TK1", name |-> "Token1"]
TokenLists == {<<HTR>>, <<T1>>, <<T1, HTR>>}
AllTokensMaps == {NATIVE_TOKEN_UID :> NATIVE_TOKEN_UID,
                  (NATIVE_TOKEN_UID :> NATIVE_TOKEN_UID) @@ ("t1" :> "t1")}

\* a transaction as the event feed delivers it
WSTx(txId, isVoided) ==
  [ version |-> 1, allAuthority |-> FALSE,
    tx_id |-> txId, timestamp |-> IF txId = "tx1" THEN 10 ELSE 20, is_voided |-> isVoided ]
WSTxs == {WSTx(txId, isVoided) : txId \in TxIds, isVoided \in BOOLEAN}

\* a fetched history entry of a token
Entry(txId, tokenUid) == getTxHistoryFromWSTx(WSTx(txId, FALSE), tokenUid, 1)
Histories(tokenUid) ==
  { <<>>, <<Entry("tx1", tokenUid)>>, <<Entry("tx1", tokenUid), Entry("tx2", tokenUid)>> }
Pages(tokenUid) == { <<Entry("tx1", tokenUid)>>, <<Entry("tx2", tokenUid)>> }

BalanceData == {[available |-> 0, locked |-> 0], [available |-> 5, locked |-> 0]}
ReadyBalance(data) ==
  [data |-> data, status |-> TOKEN_DOWNLOAD_STATUS.READY, oldStatus |-> undefined, updatedAt |-> 0]
HistoryRecords(tokenUid) ==
  { [data |-> h, status |-> TOKEN_DOWNLOAD_STATUS.READY, oldStatus |-> undefined, updatedAt |-> 0]
      : h \in Histories(tokenUid) \ {<<>>} }
\* the native balance a height update carries: the bare balance or the full record
HtrUpdatedBalances == {[available |-> 5, locked |-> 0], ReadyBalance([available |-> 0, locked |-> 0])}

ProposalData == {"proposalData1", "proposalData2"}
ListenedProposalsMaps ==
  {EmptyObject, "p1" :> [id |-> "p1", password |-> "pw1"]}

StartWalletActions ==
  { [type |-> types.START_WALLET_REQUESTED, words |-> w, pin |-> "1234"]
      : w \in {"words1", "words2"} }

ReloadPayloads ==
  { [selectedToken |-> "t1", height |-> 7],
    [tokensBalance |-> ("t1" :> [available |-> 0, locked |-> 0]), isOnline |-> TRUE] }

----------------------------------------------------------------------------
\* One action per transition identifier of rootReducer; a behaviour makes at most
\* `budget` dispatches

HistoryUpdate ==
  \E allTokens \in AllTokensMaps :
    budget > 0 /\ Dispatch([type |-> "history_update",
              payload |-> [ allTokens |-> allTokens, lastSharedIndex |-> "1",
                            lastSharedAddress |-> "addr1", addressesFound |-> 2,
                            transactionsFound |-> 3 ]])

SharedAddress ==
  budget > 0 /\ Dispatch([type |-> "shared_address",
            payload |-> [lastSharedAddress |-> "addr2", lastSharedIndex |-> "2"]])

IsVersionAllowedUpdate ==
  \E allowed \in {"true", "false"} :
    budget > 0 /\ Dispatch([type |-> "is_version_allowed_update", payload |-> [allowed |-> allowed]])

IsOnlineUpdate ==
  \E isOnline \in {TRUE} :
    budget > 0 /\ Dispatch([type |-> "is_online_update", payload |-> [isOnline |-> isOnline]])

NetworkUpdate ==
  budget > 0 /\ Dispatch([type |-> "network_update", payload |-> [network |-> "testnet"]])

ReloadData == \E payload \in ReloadPayloads : budget > 0 /\ Dispatch([type |-> "reload_data", payload |-> payload])

CleanData == budget > 0 /\ Dispatch([type |-> "clean_data"])

LastFailedRequest == budget > 0 /\ Dispatch([type |-> "last_failed_request", payload |-> "request1"])

SelectToken == \E uid \in TokenUids : budget > 0 /\ Dispatch([type |-> "select_token", payload |-> uid])

NewTokens ==
  \E uid \in TokenUids, tokens \in TokenLists :
    budget > 0 /\ Dispatch([type |-> "new_tokens", payload |-> [uid |-> uid, tokens |-> tokens]])

LoadingAddressesUpdate ==
  \E b \in {TRUE} : budget > 0 /\ Dispatch([type |-> "loading_addresses_update", payload |-> b])

UpdateLoadedData ==
  budget > 0 /\ Dispatch([type |-> "update_loaded_data", payload |-> [transactions |-> 3, addresses |-> 2]])

UpdateRequestErrorStatusCode ==
  budget > 0 /\ Dispatch([type |-> "update_request_error_status_code", payload |-> "503"])

UpdateHeight ==
  \E height \in {0, 1}, htrUpdatedBalance \in HtrUpdatedBalances :
    budget > 0 /\ Dispatch([type |-> "update_height",
              payload |-> [height |-> height, htrUpdatedBalance |-> htrUpdatedBalance]])

LoadWalletSuccess ==
  \E registeredTokens \in TokenLists :
    budget > 0 /\ Dispatch([type |-> "load_wallet_success",
              payload |-> [ tokens |-> [uid \in TokenUids |-> uid], registeredTokens |-> registeredTokens,
                            currentAddress |-> [address |-> "addr1", index |-> "1"] ]])

UpdateTx ==
  \E tx \in WSTxs, tokenUids \in {{"t1"}, TokenUids} :
    budget > 0 /\ Dispatch([type |-> "update_tx",
              payload |-> [ tx |-> tx,
                            updatedBalanceMap |-> [t \in tokenUids |-> [available |-> 4, locked |-> 1]],
                            balances |-> [t \in tokenUids |-> 1] ]])

UpdateTokenHistory ==
  \E token \in TokenUids :
    \E newHistory \in Pages(token) :
      budget > 0 /\ Dispatch([type |-> "update_token_history",
                payload |-> [token |-> token, newHistory |-> newHistory]])

TokenMetadataUpdated ==
  \E uid \in TokenUids :
    budget > 0 /\ Dispatch([type |-> "token_metadata_updated",
              payload |-> [data |-> (uid :> [id |-> uid, nft |-> FALSE]), errors |-> <<"t2">>]])

MetadataLoaded == \E b \in {TRUE} : budget > 0 /\ Dispatch([type |-> "metadata_loaded", payload |-> b])

RemoveTokenMetadata ==
  \E uid \in TokenUids : budget > 0 /\ Dispatch([type |-> "remove_token_metadata", payload |-> uid])

PartiallyUpdateHistoryAndBalance ==
  \E token \in TokenUids :
    \E history \in HistoryRecords(token), balance \in {ReadyBalance([available |-> 0, locked |-> 0])} :
      budget > 0 /\ Dispatch([type |-> "partially_update_history_and_balance",
                payload |-> [ tokensHistory |-> (token :> history),
                              tokensBalance |-> (token :> balance) ]])

SetUseWalletService ==
  \E b \in {TRUE} : budget > 0 /\ Dispatch([type |-> "set_use_wallet_service", payload |-> b])

LockWalletForResult ==
  \E resolver \in Resolvers : budget > 0 /\ Dispatch([type |-> "lock_wallet_for_result", payload |-> resolver])

ResolveLockWalletPromise ==
  budget > 0 /\ Dispatch([type |-> "resolve_lock_wallet_promise", payload |-> "pin"])

ResetSelectedTokenIfNeeded == budget > 0 /\ Dispatch([type |-> "reset_selected_token_if_needed"])

SetLedgerWasClosed ==
  \E b \in {TRUE} : budget > 0 /\ Dispatch([type |-> "set_ledger_was_closed", payload |-> b])

SetServerInfo ==
  budget > 0 /\ Dispatch([type |-> types.SET_SERVER_INFO,
            payload |-> [network |-> "testnet", version |-> "0.60.0"]])

TokenFetchBalanceRequested ==
  \E tokenId \in TokenUids :
    budget > 0 /\ Dispatch([type |-> types.TOKEN_FETCH_BALANCE_REQUESTED, tokenId |-> tokenId])

TokenFetchBalanceSuccess ==
  \E tokenId \in TokenUids, data \in BalanceData :
    budget > 0 /\ Dispatch([type |-> types.TOKEN_FETCH_BALANCE_SUCCESS, tokenId |-> tokenId, data |-> data])

TokenFetchBalanceFailed ==
  \E tokenId \in TokenUids :
    budget > 0 /\ Dispatch([type |-> types.TOKEN_FETCH_BALANCE_FAILED, tokenId |-> tokenId])

TokenFetchHistoryRequested ==
  \E tokenId \in TokenUids :
    budget > 0 /\ Dispatch([type |-> types.TOKEN_FETCH_HISTORY_REQUESTED, tokenId |-> tokenId])

TokenFetchHistorySuccess ==
  \E tokenId \in TokenUids :
    \E data \in Histories(tokenId) :
      budget > 0 /\ Dispatch([type |-> types.TOKEN_FETCH_HISTORY_SUCCESS, tokenId |-> tokenId, data |-> data])

TokenFetchHistoryFailed ==
  \E tokenId \in TokenUids :
    budget > 0 /\ Dispatch([type |-> types.TOKEN_FETCH_HISTORY_FAILED, tokenId |-> tokenId])

SetEnableAtomicSwap ==
  \E b \in {TRUE} : budget > 0 /\ Dispatch([type |-> types.SET_ENABLE_ATOMIC_SWAP, payload |-> b])

ProposalListUpdated ==
  \E map \in ListenedProposalsMaps :
    budget > 0 /\ Dispatch([type |-> types.PROPOSAL_LIST_UPDATED, listenedProposalsMap |-> map])

ProposalFetchRequested ==
  \E proposalId \in ProposalIds :
    budget > 0 /\ Dispatch([type |-> types.PROPOSAL_FETCH_REQUESTED, proposalId |-> proposalId])

ProposalFetchSuccess ==
  \E proposalId \in ProposalIds, data \in ProposalData :
    budget > 0 /\ Dispatch([type |-> types.PROPOSAL_FETCH_SUCCESS, proposalId |-> proposalId, data |-> data])

ProposalFetchFailed ==
  \E proposalId \in ProposalIds :
    budget > 0 /\ Dispatch([type |-> types.PROPOSAL_FETCH_FAILED, proposalId |-> proposalId,
              errorMessage |-> "error1"])

ProposalUpdated ==
  \E proposalId \in ProposalIds, data \in {"proposalData3"} :
    budget > 0 /\ Dispatch([type |-> types.PROPOSAL_UPDATED, proposalId |-> proposalId, data |-> data])

ProposalTokenFetchRequested ==
  \E tokenUid \in TokenUids :
    budget > 0 /\ Dispatch([type |-> types.PROPOSAL_TOKEN_FETCH_REQUESTED, tokenUid |-> tokenUid])

ProposalTokenFetchSuccess ==
  \E tokenUid \in TokenUids :
    budget > 0 /\ Dispatch([type |-> types.PROPOSAL_TOKEN_FETCH_SUCCESS, tokenUid |-> tokenUid,
              data |-> [symbol |-> "TK1", name |-> "Token1"]])

ProposalTokenFetchFailed ==
  \E tokenUid \in TokenUids :
    budget > 0 /\ Dispatch([type |-> types.PROPOSAL_TOKEN_FETCH_FAILED, tokenUid |-> tokenUid,
              errorMessage |-> "error1"])

ProposalRemoved ==
  \E proposalId \in ProposalIds :
    budget > 0 /\ Dispatch([type |-> types.PROPOSAL_REMOVED, proposalId |-> proposalId])

ProposalImported ==
  \E proposalId \in ProposalIds :
    budget > 0 /\ Dispatch([type |-> types.PROPOSAL_IMPORTED, proposalId |-> proposalId, password |-> "pw1"])

TokenInvalidateHistory ==
  \E tokenId \in TokenUids :
    budget > 0 /\ Dispatch([type |-> types.TOKEN_INVALIDATE_HISTORY, tokenId |-> tokenId])

TokenInvalidateBalance ==
  \E tokenId \in TokenUids :
    budget > 0 /\ Dispatch([type |-> types.TOKEN_INVALIDATE_BALANCE, tokenId |-> tokenId])

StartWalletLock == budget > 0 /\ Dispatch([type |-> types.ON_START_WALLET_LOCK])

StartWalletRequested == \E action \in StartWalletActions : budget > 0 /\ Dispatch(action)

StartWalletSuccess == budget > 0 /\ Dispatch([type |-> types.START_WALLET_SUCCESS])

StartWalletFailed == budget > 0 /\ Dispatch([type |-> types.START_WALLET_FAILED])

WalletBestBlockUpdate ==
  \E height \in {2} : budget > 0 /\ Dispatch([type |-> types.WALLET_BEST_BLOCK_UPDATE, data |-> height])

SetNavigateTo ==
  budget > 0 /\ Dispatch([type |-> types.SET_NAVIGATE_TO, route |-> "/wallet/", replace |-> TRUE])

SetUnleashClient == budget > 0 /\ Dispatch([type |-> types.SET_UNLEASH_CLIENT, payload |-> "client"])

SetFeatureToggles ==
  budget > 0 /\ Dispatch([type |-> types.SET_FEATURE_TOGGLES, payload |-> [toggle |-> TRUE]])

FeatureToggleInitialized == budget > 0 /\ Dispatch([type |-> types.FEATURE_TOGGLE_INITIALIZED])

UpdateTxHistory ==
  \E tx \in WSTxs, tokenId \in TokenUids :
    budget > 0 /\ Dispatch([type |-> types.UPDATE_TX_HISTORY,
              payload |-> [tx |-> tx, tokenId |-> tokenId, balance |-> 2]])

WalletChangeState == budget > 0 /\ Dispatch([type |-> types.WALLET_CHANGE_STATE, payload |-> "Ready"])

SetMiningServer == budget > 0 /\ Dispatch([type |-> types.SET_MINING_SERVER, payload |-> "mining.example"])

SetNativeTokenData ==
  budget > 0 /\ Dispatch([type |-> types.SET_NATIVE_TOKEN_DATA, payload |-> HTR])

\* An action whose type rootReducer has no case for
UnknownAction ==
  \E type \in UnknownTypes : budget > 0 /\ Dispatch([type |-> type, payload |-> "anything"])

----------------------------------------------------------------------------
\* The fetch tasks of the orchestration layer (sagas/tokens): every request
\* and every invalidation of a key opens a new epoch of that key; a response
\* reaches the store only if it carries the key's current epoch.

FetchKinds == {"balance", "history"}

\* what the wallet engine answers to the request tagged `tag`
responseData(kind, tokenId, tag) ==
  IF kind = "balance"
    THEN [available |-> tag, locked |-> 0]
    ELSE <<getTxHistoryFromWSTx(WSTx("tx1", FALSE), tokenId, tag)>>

requested(kind, tokenId) ==
  [ type |-> IF kind = "balance" THEN types.TOKEN_FETCH_BALANCE_REQUESTED
                                 ELSE types.TOKEN_FETCH_HISTORY_REQUESTED,
    tokenId |-> tokenId ]

success(kind, tokenId, data) ==
  [ type |-> IF kind = "balance" THEN types.TOKEN_FETCH_BALANCE_SUCCESS
                                 ELSE types.TOKEN_FETCH_HISTORY_SUCCESS,
    tokenId |-> tokenId, data |-> data ]

failed(kind, tokenId) ==
  [ type |-> IF kind = "balance" THEN types.TOKEN_FETCH_BALANCE_FAILED
                                 ELSE types.TOKEN_FETCH_HISTORY_FAILED,
    tokenId |-> tokenId ]

invalidate(kind, tokenId) ==
  [ type |-> IF kind = "balance" THEN types.TOKEN_INVALIDATE_BALANCE
                                 ELSE types.TOKEN_INVALIDATE_HISTORY,
    tokenId |-> tokenId ]

isCurrent(task) == task.tag = epoch[task.kind][task.tokenId]

\* a fetch task starts: LOADING transition, then the task waits at its I/O boundary
FetchStart ==
  \E kind \in FetchKinds, tokenId \in TokenUids :
    /\ budget > 0
    /\ epoch[kind][tokenId] < MaxEpoch
    /\ epoch' = [epoch EXCEPT ![kind][tokenId] = @ + 1]
    /\ inflight' = inflight \cup {[kind |-> kind, tokenId |-> tokenId, tag |-> epoch[kind][tokenId] + 1]}
    /\ Reduce(requested(kind, tokenId))
    /\ UNCHANGED discarded
    /\ UNCHANGED tokenVars

\* the key is invalidated while fetches may be in flight
Invalidate ==
  \E kind \in FetchKinds, tokenId \in TokenUids :
    /\ budget > 0
    /\ epoch[kind][tokenId] < MaxEpoch
    /\ epoch' = [epoch EXCEPT ![kind][tokenId] = @ + 1]
    /\ Reduce(invalidate(kind, tokenId))
    /\ UNCHANGED <<inflight, discarded>>
    /\ UNCHANGED tokenVars

\* the response of the newest request of a key arrives
FetchSucceeds ==
  \E task \in inflight :
    /\ budget > 0
    /\ isCurrent(task)
    /\ inflight' = inflight \ {task}
    /\ Reduce(success(task.kind, task.tokenId, responseData(task.kind, task.tokenId, task.tag)))
    /\ UNCHANGED <<epoch, discarded>>
    /\ UNCHANGED tokenVars

FetchFails ==
  \E task \in inflight :
    /\ budget > 0
    /\ isCurrent(task)
    /\ inflight' = inflight \ {task}
    /\ Reduce(failed(task.kind, task.tokenId))
    /\ UNCHANGED <<epoch, discarded>>
    /\ UNCHANGED tokenVars

\* the response of a superseded request arrives: it is dropped before the store
DiscardStale ==
  \E task \in inflight :
    /\ ~isCurrent(task)
    /\ inflight' = inflight \ {task}
    /\ discarded' = discarded \cup {task}
    /\ UNCHANGED <<storeVars, epoch>>
    /\ UNCHANGED tokenVars

----------------------------------------------------------------------------
\* Token registration (src/src/utils/tokens.js).  addToken and unregisterToken are
\* async: each call runs up to its next await, and the calls in progress interleave
\* at those points.  wallet.storage keeps the registered tokens in insertion order
\* and its iterator reads the storage as it is when each element is asked for.

CallIds == 1..MaxCalls
CustomTokens == {"t1", "t2"}
T2 == [uid |-> "t2", symbol |-> "TK2", name |-> "Token2"]

\* the {uid, name, symbol} the storage holds for a uid
tokenData(uid) ==
  CASE uid = NATIVE_TOKEN_UID -> HTR
    [] uid = "t1" -> T1
    [] OTHER -> T2

IdleCall == [pc |-> "idle", op |-> "none", uid |-> "none", cursor |-> 0, tokens |-> <<>>]

\* action creators of src/src/actions
newTokens(tokens, uid) == [type |-> "new_tokens", payload |-> [tokens |-> tokens, uid |-> uid]]
removeTokenMetadataAction(uid) == [type |-> "remove_token_metadata", payload |-> uid]

isRegistered(storage, uid) == \E i \in 1..Len(storage) : storage[i] = uid
positionOf(storage, uid) == CHOOSE i \in 1..Len(storage) : storage[i] = uid

\* storage.registerToken / storage.unregisterToken on the registered-token map
registerToken(storage, uid) ==
  IF isRegistered(storage, uid) THEN storage ELSE Append(storage, uid)

unregisterTokenFromStorage(storage, uid) ==
  IF isRegistered(storage, uid)
    THEN [i \in 1..(Len(storage) - 1) |->
            IF i < positionOf(storage, uid) THEN storage[i] ELSE storage[i + 1]]
    ELSE storage

\* an iterator in progress keeps its place when an element before it is removed
cursorAfterRemoval(storage, uid, call) ==
  IF /\ call.pc = "iterate"
     /\ isRegistered(storage, uid)
     /\ positionOf(storage, uid) <= call.cursor
    THEN [call EXCEPT !.cursor = @ - 1]
    ELSE call

\* addToken(uid, name, symbol) is called: storage.registerToken starts, the call awaits it
AddToken ==
  \E call \in CallIds, uid \in CustomTokens :
    /\ tokenCalls[call].pc = "idle"
    /\ tokenCalls' = [tokenCalls EXCEPT ![call] = [IdleCall EXCEPT !.pc = "storage", !.op = "addToken", !.uid = uid]]
    /\ UNCHANGED <<walletStorage, storeVars, syncVars>>

\* unregisterToken(uid) is called: storage.unregisterToken starts, the call awaits it
UnregisterToken ==
  \E call \in CallIds, uid \in CustomTokens :
    /\ tokenCalls[call].pc = "idle"
    /\ tokenCalls' = [tokenCalls EXCEPT ![call] = [IdleCall EXCEPT !.pc = "storage", !.op = "unregisterToken", !.uid = uid]]
    /\ UNCHANGED <<walletStorage, storeVars, syncVars>>

\* `await globalWallet.storage.registerToken(...)` completes; getRegisteredTokens opens
\* its iterator
RegisterTokenDone ==
  \E call \in CallIds :
    /\ tokenCalls[call].pc = "storage"
    /\ tokenCalls[call].op = "addToken"
    /\ walletStorage' = registerToken(walletStorage, tokenCalls[call].uid)
    /\ tokenCalls' = [tokenCalls EXCEPT ![call].pc = "iterate"]
    /\ UNCHANGED <<storeVars, syncVars>>

\* `await globalWallet.storage.unregisterToken(uid)` completes
UnregisterTokenDone ==
  \E call \in CallIds :
    /\ tokenCalls[call].pc = "storage"
    /\ tokenCalls[call].op = "unregisterToken"
    /\ walletStorage' = unregisterTokenFromStorage(walletStorage, tokenCalls[call].uid)
    /\ tokenCalls' = [other \in CallIds |->
                   IF other = call
                     THEN [tokenCalls[call] EXCEPT !.pc = "iterate"]
                     ELSE cursorAfterRemoval(walletStorage, tokenCalls[call].uid, tokenCalls[other])]
    /\ UNCHANGED <<storeVars, syncVars>>

\* one `await iterator.next()` of getRegisteredTokens: the next token is pushed, or
\* the iterator is done and the list is returned to the caller
GetRegisteredTokensNext ==
  \E call \in CallIds :
    /\ tokenCalls[call].pc = "iterate"
    /\ tokenCalls' = [tokenCalls EXCEPT ![call] =
                   IF @.cursor < Len(walletStorage)
                     THEN [@ EXCEPT !.cursor = @ + 1,
                                    !.tokens = Append(@, tokenData(walletStorage[tokenCalls[call].cursor + 1]))]
                     ELSE [@ EXCEPT !.pc = "dispatch"]]
    /\ UNCHANGED <<walletStorage, storeVars, syncVars>>

\* addToken resumes with the list: store.dispatch(newTokens({tokens, uid}))
AddTokenDispatch ==
  \E call \in CallIds :
    /\ tokenCalls[call].pc = "dispatch"
    /\ tokenCalls[call].op = "addToken"
    /\ Reduce(newTokens(tokenCalls[call].tokens, tokenCalls[call].uid))
    /\ tokenCalls' = [tokenCalls EXCEPT ![call].pc = "done"]
    /\ UNCHANGED <<walletStorage, syncVars>>

\* unregisterToken resumes with the list: newTokens selecting the native token, then
\* removeTokenMetadata(uid)
UnregisterTokenDispatch ==
  \E call \in CallIds :
    /\ tokenCalls[call].pc = "dispatch"
    /\ tokenCalls[call].op = "unregisterToken"
    /\ ReduceBoth(newTokens(tokenCalls[call].tokens, NATIVE_TOKEN_UID),
                  removeTokenMetadataAction(tokenCalls[call].uid))
    /\ tokenCalls' = [tokenCalls EXCEPT ![call].pc = "done"]
    /\ UNCHANGED <<walletStorage, syncVars>>

----------------------------------------------------------------------------
\* Specifications

InitWith(steps) ==
  /\ state = initialState
  /\ prev = initialState
  /\ last = ("@@INIT" :> [type |-> "@@INIT"])
  /\ threw = FALSE
  /\ now = 0
  /\ budget = steps
  /\ invoked = <<>>
  /\ localStore = [walletVersion |-> null]
  /\ epoch = [kind \in FetchKinds |-> [tokenId \in TokenUids |-> 0]]
  /\ inflight = {}
  /\ discarded = {}
  /\ armed = <<>>
  /\ walletStorage = <<NATIVE_TOKEN_UID>>
  /\ tokenCalls = [call \in CallIds |-> IdleCall]

Init == InitWith(MaxSteps)

Next ==
  \/ Tick
  \/ HistoryUpdate \/ SharedAddress \/ IsVersionAllowedUpdate \/ IsOnlineUpdate
  \/ NetworkUpdate \/ ReloadData \/ CleanData \/ LastFailedRequest \/ SelectToken
  \/ NewTokens \/ LoadingAddressesUpdate \/ UpdateLoadedData
  \/ UpdateRequestErrorStatusCode \/ UpdateHeight \/ LoadWalletSuccess \/ UpdateTx
  \/ UpdateTokenHistory \/ TokenMetadataUpdated \/ MetadataLoaded \/ RemoveTokenMetadata
  \/ PartiallyUpdateHistoryAndBalance \/ SetUseWalletService \/ LockWalletForResult
  \/ ResolveLockWalletPromise \/ ResetSelectedTokenIfNeeded \/ SetLedgerWasClosed
  \/ SetServerInfo \/ TokenFetchBalanceRequested \/ TokenFetchBalanceSuccess
  \/ TokenFetchBalanceFailed \/ TokenFetchHistoryRequested \/ TokenFetchHistorySuccess
  \/ TokenFetchHistoryFailed \/ SetEnableAtomicSwap \/ ProposalListUpdated
  \/ ProposalFetchRequested \/ ProposalFetchSuccess \/ ProposalFetchFailed
  \/ ProposalUpdated \/ ProposalTokenFetchRequested \/ ProposalTokenFetchSuccess
  \/ ProposalTokenFetchFailed \/ ProposalRemoved \/ ProposalImported
  \/ TokenInvalidateHistory \/ TokenInvalidateBalance \/ StartWalletLock
  \/ StartWalletRequested \/ StartWalletSuccess \/ StartWalletFailed
  \/ WalletBestBlockUpdate \/ SetNavigateTo \/ SetUnleashClient \/ SetFeatureToggles
  \/ FeatureToggleInitialized \/ UpdateTxHistory \/ WalletChangeState \/ SetMiningServer
  \/ SetNativeTokenData \/ UnknownAction

Spec == Init /\ [][Next]_vars

\* The balance and selection alphabet, to a greater depth
InitSelect == InitWith(MaxSelectSteps)

NextSelect ==
  \/ Tick
  \/ SelectToken \/ NewTokens \/ UpdateHeight \/ ResetSelectedTokenIfNeeded
  \/ TokenFetchBalanceRequested \/ TokenFetchBalanceSuccess \/ TokenFetchBalanceFailed
  \/ TokenInvalidateBalance \/ RemoveTokenMetadata \/ ReloadData

SpecSelect == InitSelect /\ [][NextSelect]_vars

\* The store driven by the orchestrated fetch tasks
InitSync == InitWith(MaxSyncSteps)

NextSync == Tick \/ FetchStart \/ Invalidate \/ FetchSucceeds \/ FetchFails \/ DiscardStale

SpecSync == InitSync /\ [][NextSync]_vars

\* The session alphabet (start of the wallet, lock-wallet resolver, reset), to a
\* greater depth
InitSession == InitWith(MaxSessionSteps)

NextSession ==
  \/ Tick
  \/ StartWalletLock \/ StartWalletRequested \/ StartWalletSuccess \/ StartWalletFailed
  \/ LockWalletForResult \/ ResolveLockWalletPromise \/ CleanData

SpecSession == InitSession /\ [][NextSession]_vars

\* The status transitions of the four cached collections
InitStatus == InitWith(MaxStatusSteps)

NextStatus ==
  \/ TokenFetchBalanceRequested \/ TokenFetchBalanceSuccess \/ TokenFetchBalanceFailed
  \/ TokenInvalidateBalance
  \/ TokenFetchHistoryRequested \/ TokenFetchHistorySuccess \/ TokenFetchHistoryFailed
  \/ TokenInvalidateHistory
  \/ ProposalFetchRequested \/ ProposalFetchSuccess \/ ProposalFetchFailed
  \/ ProposalImported \/ ProposalRemoved
  \/ ProposalTokenFetchRequested \/ ProposalTokenFetchSuccess \/ ProposalTokenFetchFailed

SpecStatus == InitStatus /\ [][NextStatus]_vars

\* Concurrent addToken / unregisterToken calls
InitTokens == InitWith(2 * MaxCalls)

NextTokens ==
  \/ AddToken \/ UnregisterToken \/ RegisterTokenDone \/ UnregisterTokenDone
  \/ GetRegisteredTokensNext \/ AddTokenDispatch \/ UnregisterTokenDispatch

SpecTokens == InitTokens /\ [][NextTokens]_vars

----------------------------------------------------------------------------
\* Properties.  `lastAction` is the transition just applied, `prev` the state it was
\* applied to, `state` its result.

\* the history sequence a token holds in state s (empty when it holds none)
HistoryOf(s, tokenUid) ==
  IF tokenUid \notin DOMAIN s.tokensHistory THEN <<>>
  ELSE IF IsArray(s.tokensHistory[tokenUid]) THEN s.tokensHistory[tokenUid].array
  ELSE get(s.tokensHistory[tokenUid], "data", <<>>)

HasTx(history, txId) == \E i \in 1..Len(history) : history[i].tx_id = txId

statusOf(map, key) == get(get(map, key, EmptyObject), "status", undefined)
oldStatusOf(map, key) == get(get(map, key, EmptyObject), "oldStatus", undefined)

\* C1 - Totality: an action whose type rootReducer has no case for leaves every
\* field of the state as it was and raises nothing.
C1_Totality ==
  lastAction.type \notin HandledTypes => (state = prev /\ threw = FALSE)

C1_Witness ==
  /\ lastAction.type \in UnknownTypes
  /\ prev # initialState

\* C2 - History replace-in-place: update_tx for a tx whose id is already in a
\* token's history yields that history with the same length and order, the entry
\* of that id replaced by the entry built from the tx, every other entry unchanged.
C2_ReplaceInPlace ==
  \A tokenUid \in TokenUids :
    ( /\ lastAction.type = "update_tx"
      /\ tokenUid \in DOMAIN lastAction.payload.balances
      /\ HasTx(HistoryOf(prev, tokenUid), lastAction.payload.tx.tx_id) )
    => LET old == HistoryOf(prev, tokenUid)
           entry == getTxHistoryFromWSTx(lastAction.payload.tx, tokenUid,
                                         lastAction.payload.balances[tokenUid])
       IN HistoryOf(state, tokenUid) =
            [i \in 1..Len(old) |-> IF old[i].tx_id = lastAction.payload.tx.tx_id THEN entry ELSE old[i]]

\* C3 - History append-on-miss: update_tx for a tx whose id is not in a token's
\* history yields that history with the new entry appended at the end.
C3_AppendOnMiss ==
  \A tokenUid \in TokenUids :
    ( /\ lastAction.type = "update_tx"
      /\ tokenUid \in DOMAIN lastAction.payload.balances
      /\ ~HasTx(HistoryOf(prev, tokenUid), lastAction.payload.tx.tx_id) )
    => HistoryOf(state, tokenUid) =
         Append(HistoryOf(prev, tokenUid),
                getTxHistoryFromWSTx(lastAction.payload.tx, tokenUid, lastAction.payload.balances[tokenUid]))

\* the transition alphabet documented for the store
Alphabet ==
  { "history_update", "update_tx", "update_token_history", "update_height", "new_tokens",
    "clean_data", "resolve_lock_wallet_promise", "lock_wallet_for_result",
    types.TOKEN_FETCH_BALANCE_REQUESTED, types.TOKEN_FETCH_BALANCE_SUCCESS,
    types.TOKEN_FETCH_BALANCE_FAILED, types.TOKEN_FETCH_HISTORY_REQUESTED,
    types.TOKEN_FETCH_HISTORY_SUCCESS, types.TOKEN_FETCH_HISTORY_FAILED,
    types.TOKEN_INVALIDATE_BALANCE, types.TOKEN_INVALIDATE_HISTORY,
    types.PROPOSAL_FETCH_REQUESTED, types.PROPOSAL_FETCH_SUCCESS, types.PROPOSAL_FETCH_FAILED,
    types.PROPOSAL_TOKEN_FETCH_REQUESTED, types.PROPOSAL_TOKEN_FETCH_SUCCESS,
    types.PROPOSAL_TOKEN_FETCH_FAILED, types.PROPOSAL_UPDATED, types.PROPOSAL_IMPORTED,
    types.PROPOSAL_REMOVED, types.PROPOSAL_LIST_UPDATED, types.SET_NATIVE_TOKEN_DATA,
    types.START_WALLET_REQUESTED, types.START_WALLET_SUCCESS, types.START_WALLET_FAILED }

\* C4 - The store never raises for a data-shaped input: a transition of the
\* alphabet raises only if it is resolve_lock_wallet_promise with no resolver armed.
C4_NeverRaises ==
  (threw /\ lastAction.type \in Alphabet)
    => (lastAction.type = "resolve_lock_wallet_promise" /\ prev.lockWalletPromise = null)

BalanceFetchStatus ==
  (types.TOKEN_FETCH_BALANCE_REQUESTED :> TOKEN_DOWNLOAD_STATUS.LOADING)
  @@ (types.TOKEN_FETCH_BALANCE_SUCCESS :> TOKEN_DOWNLOAD_STATUS.READY)
  @@ (types.TOKEN_FETCH_BALANCE_FAILED :> TOKEN_DOWNLOAD_STATUS.FAILED)

HistoryFetchStatus ==
  (types.TOKEN_FETCH_HISTORY_REQUESTED :> TOKEN_DOWNLOAD_STATUS.LOADING)
  @@ (types.TOKEN_FETCH_HISTORY_SUCCESS :> TOKEN_DOWNLOAD_STATUS.READY)
  @@ (types.TOKEN_FETCH_HISTORY_FAILED :> TOKEN_DOWNLOAD_STATUS.FAILED)

\* C5 - oldStatus bookkeeping for token balances and histories: after a
\* token_fetch_balance_* (token_fetch_history_*) transition on a tokenId the
\* record holds the transition's status and, as oldStatus, the status the record
\* held immediately before (undefined when it held none).
C5_OldStatusTokens ==
  /\ lastAction.type \in DOMAIN BalanceFetchStatus =>
       /\ threw = FALSE
       /\ statusOf(state.tokensBalance, lastAction.tokenId) = BalanceFetchStatus[lastAction.type]
       /\ "oldStatus" \in DOMAIN state.tokensBalance[lastAction.tokenId]
       /\ oldStatusOf(state.tokensBalance, lastAction.tokenId) = statusOf(prev.tokensBalance, lastAction.tokenId)
  /\ lastAction.type \in DOMAIN HistoryFetchStatus =>
       /\ threw = FALSE
       /\ statusOf(state.tokensHistory, lastAction.tokenId) = HistoryFetchStatus[lastAction.type]
       /\ "oldStatus" \in DOMAIN state.tokensHistory[lastAction.tokenId]
       /\ oldStatusOf(state.tokensHistory, lastAction.tokenId) = statusOf(prev.tokensHistory, lastAction.tokenId)

\* a success that follows a request made on an absent record
C5_Witness ==
  /\ lastAction.type = types.TOKEN_FETCH_BALANCE_SUCCESS
  /\ lastAction.tokenId \in DOMAIN prev.tokensBalance
  /\ prev.tokensBalance[lastAction.tokenId] =
       [status |-> TOKEN_DOWNLOAD_STATUS.LOADING, oldStatus |-> undefined]
  /\ state.tokensBalance[lastAction.tokenId].status = TOKEN_DOWNLOAD_STATUS.READY
  /\ state.tokensBalance[lastAction.tokenId].oldStatus = TOKEN_DOWNLOAD_STATUS.LOADING

ProposalFetchTypes ==
  {types.PROPOSAL_FETCH_REQUESTED, types.PROPOSAL_FETCH_SUCCESS, types.PROPOSAL_FETCH_FAILED}
ProposalTokenFetchTypes ==
  { types.PROPOSAL_TOKEN_FETCH_REQUESTED, types.PROPOSAL_TOKEN_FETCH_SUCCESS,
    types.PROPOSAL_TOKEN_FETCH_FAILED }

\* C6 - oldStatus bookkeeping for proposal-flow entities: after a proposal_fetch_*
\* transition on a proposal id, and after a proposal_token_fetch_* transition on a
\* tokenUid held in tokensCache, the record's oldStatus is the status the record
\* held immediately before.
C6_OldStatusProposals ==
  /\ lastAction.type \in ProposalFetchTypes =>
       oldStatusOf(state.proposals, lastAction.proposalId) = statusOf(prev.proposals, lastAction.proposalId)
  /\ (lastAction.type \in ProposalTokenFetchTypes /\ lastAction.tokenUid \in DOMAIN prev.tokensCache) =>
       oldStatusOf(state.tokensCache, lastAction.tokenUid) = statusOf(prev.tokensCache, lastAction.tokenUid)

\* the record a fetch kind keeps for a token
recordsOf(s, kind) == IF kind = "balance" THEN s.tokensBalance ELSE s.tokensHistory

AllowList ==
  {"isVersionAllowed", "loadingAddresses", "ledgerWasClosed", "featureTogglesInitialized"}

\* C8 - Reset allow-list: clean_data yields the initial state in every field except
\* isVersionAllowed, loadingAddresses, ledgerWasClosed and featureTogglesInitialized,
\* which keep their values; fields the initial state does not have are gone.
C8_ResetAllowList ==
  lastAction.type = "clean_data" =>
    /\ threw = FALSE
    /\ DOMAIN state = DOMAIN initialState
    /\ \A field \in DOMAIN initialState :
         state[field] = IF field \in AllowList THEN prev[field] ELSE initialState[field]

\* a reset of a state in which a retained flag differs from its initial value
C8_Witness ==
  /\ lastAction.type = "clean_data"
  /\ \E field \in AllowList : prev[field] # initialState[field] /\ state[field] = prev[field]

\* C9 - Zero-balance reselect: reset_selected_token_if_needed yields selectedToken =
\* native uid when the selected token has no balance record or a record whose data
\* is available = 0, locked = 0, and leaves selectedToken alone when the data is non-zero.
C9_ZeroBalanceReselect ==
  lastAction.type = "reset_selected_token_if_needed" =>
    LET X == prev.selectedToken
        hasRecord == X \in DOMAIN prev.tokensBalance
        hasData == hasRecord /\ "data" \in DOMAIN prev.tokensBalance[X]
        total == prev.tokensBalance[X].data.available + prev.tokensBalance[X].data.locked
    IN /\ (~hasRecord \/ (hasData /\ total = 0)) => state.selectedToken = NATIVE_TOKEN_UID
       /\ (hasData /\ total # 0) => state.selectedToken = X

\* C10 - Start-success clears the secret: start_wallet_success sets walletStartState
\* to READY and startWalletAction to null, whatever action was stored.
C10_StartSuccessClearsSecret ==
  lastAction.type = types.START_WALLET_SUCCESS =>
    /\ threw = FALSE
    /\ state.walletStartState = WALLET_STATUS.READY
    /\ state.startWalletAction = nullObject

C10_Witness ==
  /\ lastAction.type = types.START_WALLET_SUCCESS
  /\ prev.startWalletAction \in StartWalletActions

\* the transitions after which the stored start action may differ
StartActionWriters == {types.START_WALLET_REQUESTED, types.START_WALLET_SUCCESS, "clean_data"}

\* C11 - Start action retained for retry: start_wallet_requested(action) sets
\* walletStartState to LOADING and stores the action; start_wallet_failed sets
\* walletStartState to FAILED; the stored action is the same after every transition
\* that is not a start_wallet_success, a start_wallet_requested or a clean_data.
C11_StartActionRetained ==
  /\ lastAction.type = types.START_WALLET_REQUESTED =>
       /\ threw = FALSE
       /\ state.walletStartState = WALLET_STATUS.LOADING
       /\ state.startWalletAction = lastAction
  /\ lastAction.type = types.START_WALLET_FAILED =>
       /\ threw = FALSE
       /\ state.walletStartState = WALLET_STATUS.FAILED
  /\ lastAction.type \notin StartActionWriters =>
       state.startWalletAction = prev.startWalletAction

\* a second failure in a row that still holds the requested action
C11_Witness ==
  /\ lastAction.type = types.START_WALLET_FAILED
  /\ get(prev, "walletStartState", undefined) = WALLET_STATUS.FAILED
  /\ state.startWalletAction \in StartWalletActions

\* C12 - Height idempotence: update_height whose height equals the current height
\* returns the state it was given, whatever htrUpdatedBalance it carries.
C12_HeightIdempotence ==
  (lastAction.type = "update_height" /\ lastAction.payload.height = prev.height) =>
    (threw = FALSE /\ state = prev)

\* the same height as the one an earlier update set, with another native balance
C12_Witness ==
  /\ lastAction.type = "update_height"
  /\ lastAction.payload.height = prev.height
  /\ prev.height # initialState.height
  /\ NATIVE_TOKEN_UID \in DOMAIN prev.tokensBalance
  /\ prev.tokensBalance[NATIVE_TOKEN_UID] # lastAction.payload.htrUpdatedBalance

\* C13 - Native token invariant: once set_native_token_data has been applied
\* (nativeTokenData is written by that handler alone), the native token is the
\* first element of tokens and tokensCache holds it with status READY.
C13_NativeTokenFirst ==
  state.nativeTokenData # nullObject =>
    /\ Len(state.tokens) > 0
    /\ state.tokens[1].uid = NATIVE_TOKEN_UID
    /\ statusOf(state.tokensCache, NATIVE_TOKEN_UID) = TOKEN_DOWNLOAD_STATUS.READY

PasswordKeepers ==
  { types.PROPOSAL_FETCH_REQUESTED, types.PROPOSAL_FETCH_SUCCESS, types.PROPOSAL_FETCH_FAILED,
    types.PROPOSAL_UPDATED }

\* C14 - Proposal password retention: proposal_fetch_requested, proposal_fetch_success,
\* proposal_fetch_failed and proposal_updated on the id of a proposal that holds a
\* password leave that password as it was.
C14_PasswordRetained ==
  ( /\ lastAction.type \in PasswordKeepers
    /\ lastAction.proposalId \in DOMAIN prev.proposals
    /\ "password" \in DOMAIN prev.proposals[lastAction.proposalId] )
  => /\ threw = FALSE
     /\ lastAction.proposalId \in DOMAIN state.proposals
     /\ "password" \in DOMAIN state.proposals[lastAction.proposalId]
     /\ state.proposals[lastAction.proposalId].password =
          prev.proposals[lastAction.proposalId].password

\* a failed fetch of an imported proposal, whose record is rebuilt field by field
C14_Witness ==
  /\ lastAction.type = types.PROPOSAL_FETCH_FAILED
  /\ lastAction.proposalId \in DOMAIN prev.proposals
  /\ get(prev.proposals[lastAction.proposalId], "password", undefined) = "pw1"
  /\ state.proposals[lastAction.proposalId].status = PROPOSAL_DOWNLOAD_STATUS.FAILED

\* C15 - PinGate misuse is loud: resolve_lock_wallet_promise with no resolver armed
\* (lockWalletPromise is null) raises: no next state is produced and no resolver is
\* called.
C15_MisuseIsLoud ==
  (lastAction.type = "resolve_lock_wallet_promise" /\ prev.lockWalletPromise = null) =>
    /\ threw = TRUE
    /\ state = prev
    /\ \A i \in 1..Len(invoked) : invoked[i][1] # null

\* a second resolve, after the first one called the resolver and cleared the slot
C15_Witness ==
  /\ lastAction.type = "resolve_lock_wallet_promise"
  /\ prev.lockWalletPromise = null
  /\ Len(invoked) > 0
  /\ threw = TRUE

\* the collections of cached entities
CachedCollections == {"tokensBalance", "tokensHistory", "proposals", "tokensCache"}

\* data.available + data.locked = 0 for the record a token holds in tokensBalance
HoldsZeroBalance(s, tokenUid) ==
  /\ tokenUid \in DOMAIN s.tokensBalance
  /\ "data" \in DOMAIN s.tokensBalance[tokenUid]
  /\ s.tokensBalance[tokenUid].data.available + s.tokensBalance[tokenUid].data.locked = 0

\* the last transition is an explicit removal of `key` from `collection`, or the reset
IsRemoval(collection, key) ==
  \/ lastAction.type = "clean_data"
  \/ /\ lastAction.type = types.PROPOSAL_REMOVED
     /\ collection = "proposals"
     /\ lastAction.proposalId = key
  \/ /\ lastAction.type = "remove_token_metadata"
     /\ collection # "proposals"
     /\ lastAction.payload = key
     /\ HoldsZeroBalance(prev, key)

\* the last transition replaces `collection` as a whole by a map of its payload
IsReplacement(collection) ==
  \/ lastAction.type = types.PROPOSAL_LIST_UPDATED /\ collection = "proposals"
  \/ lastAction.type = "reload_data" /\ collection \in DOMAIN lastAction.payload

\* C16 - Key lifecycle, as claimed: a key of tokensBalance, tokensHistory, proposals
\* or tokensCache is still present after every transition other than proposal_removed
\* for that id, remove_token_metadata for a token with zero balance, and clean_data.
C16_KeyLifecycle ==
  \A collection \in CachedCollections :
    \A key \in DOMAIN prev[collection] :
      ~IsRemoval(collection, key) => key \in DOMAIN state[collection]

\* C16 - Key lifecycle, amended: ... other than those removals and the transitions
\* that replace the collection as a whole (proposal_list_updated for proposals,
\* reload_data for a collection its payload carries).
C16_KeyLifecycleAmended ==
  \A collection \in CachedCollections :
    \A key \in DOMAIN prev[collection] :
      (~IsRemoval(collection, key) /\ ~IsReplacement(collection))
        => key \in DOMAIN state[collection]

\* a second proposal imported next to one already held
C16_Witness ==
  /\ lastAction.type = types.PROPOSAL_IMPORTED
  /\ DOMAIN prev.proposals # {}
  /\ lastAction.proposalId \notin DOMAIN prev.proposals
  /\ DOMAIN prev.proposals \subseteq DOMAIN state.proposals

\* the fields of a token's history record that pagination does not write
KeptHistoryFields == {"status", "oldStatus", "updatedAt"}

\* C17 - Pagination append: update_token_history(token, newHistory) yields for that
\* token the previous data followed by newHistory (the previous data being empty when
\* the token had none), keeps the record's status, oldStatus and updatedAt, and leaves
\* every other token's history and every other field of the state unchanged.
C17_PaginationAppend ==
  lastAction.type = "update_token_history" =>
    LET token == lastAction.payload.token
        old == get(prev.tokensHistory, token, EmptyObject)
    IN /\ threw = FALSE
       /\ DOMAIN state.tokensHistory = DOMAIN prev.tokensHistory \cup {token}
       /\ state.tokensHistory[token].data = get(old, "data", <<>>) \o lastAction.payload.newHistory
       /\ \A field \in KeptHistoryFields :
            IF field \in DOMAIN old
              THEN /\ field \in DOMAIN state.tokensHistory[token]
                   /\ state.tokensHistory[token][field] = old[field]
              ELSE field \notin DOMAIN state.tokensHistory[token]
       /\ \A other \in DOMAIN prev.tokensHistory \ {token} :
            state.tokensHistory[other] = prev.tokensHistory[other]
       /\ DOMAIN state = DOMAIN prev
       /\ \A field \in DOMAIN prev \ {"tokensHistory"} : state[field] = prev[field]

\* a second page fetched for a token whose record holds a first page and a status
C17_Witness ==
  /\ lastAction.type = "update_token_history"
  /\ lastAction.payload.token \in DOMAIN prev.tokensHistory
  /\ "status" \in DOMAIN prev.tokensHistory[lastAction.payload.token]
  /\ Len(get(prev.tokensHistory[lastAction.payload.token], "data", <<>>)) > 0
  /\ Len(state.tokensHistory[lastAction.payload.token].data) >= 2

\* C18 - Partial merge: partially_update_history_and_balance yields tokensHistory and
\* tokensBalance in which every key of the payload maps holds exactly the payload's
\* record and every other key holds its previous record; no other field changes.
C18_PartialMerge ==
  lastAction.type = "partially_update_history_and_balance" =>
    /\ threw = FALSE
    /\ DOMAIN state = DOMAIN prev
    /\ \A field \in DOMAIN prev \ {"tokensHistory", "tokensBalance"} : state[field] = prev[field]
    /\ \A map \in {"tokensHistory", "tokensBalance"} :
         /\ DOMAIN state[map] = DOMAIN prev[map] \cup DOMAIN lastAction.payload[map]
         /\ \A key \in DOMAIN lastAction.payload[map] :
              state[map][key] = lastAction.payload[map][key]
         /\ \A key \in DOMAIN prev[map] \ DOMAIN lastAction.payload[map] :
              state[map][key] = prev[map][key]

\* the payload overwrites a record that holds a field the payload's record lacks
C18_Witness ==
  /\ lastAction.type = "partially_update_history_and_balance"
  /\ \E map \in {"tokensHistory", "tokensBalance"} :
       \E key \in DOMAIN lastAction.payload[map] \cap DOMAIN prev[map] :
         /\ ~(DOMAIN prev[map][key] \subseteq DOMAIN lastAction.payload[map][key])
         /\ state[map][key] = lastAction.payload[map][key]

\* C19 - Height update is atomic: update_height whose height differs from the current
\* one yields in that one transition the payload's height together with the payload's
\* htrUpdatedBalance as the native token's balance entry; the other tokens' balance
\* entries and all other fields are unchanged.
C19_HeightAtomic ==
  (lastAction.type = "update_height" /\ lastAction.payload.height # prev.height) =>
    /\ threw = FALSE
    /\ state.height = lastAction.payload.height
    /\ DOMAIN state.tokensBalance = DOMAIN prev.tokensBalance \cup {NATIVE_TOKEN_UID}
    /\ state.tokensBalance[NATIVE_TOKEN_UID] = lastAction.payload.htrUpdatedBalance
    /\ \A other \in DOMAIN prev.tokensBalance \ {NATIVE_TOKEN_UID} :
         state.tokensBalance[other] = prev.tokensBalance[other]
    /\ DOMAIN state = DOMAIN prev
    /\ \A field \in DOMAIN prev \ {"height", "tokensBalance"} : state[field] = prev[field]

\* a new height that replaces a native balance held next to another token's balance
C19_Witness ==
  /\ lastAction.type = "update_height"
  /\ lastAction.payload.height # prev.height
  /\ DOMAIN prev.tokensBalance = TokenUids
  /\ prev.tokensBalance[NATIVE_TOKEN_UID] # lastAction.payload.htrUpdatedBalance
  /\ state.tokensBalance[NATIVE_TOKEN_UID] = lastAction.payload.htrUpdatedBalance

\* C20 - Invalidation: token_invalidate_balance (token_invalidate_history) on a
\* tokenId yields a record with status INVALIDATED whose oldStatus is the status the
\* record held immediately before, and leaves the records of the other tokenIds alone.
C20_InvalidationOldStatus ==
  /\ lastAction.type = types.TOKEN_INVALIDATE_BALANCE =>
       /\ threw = FALSE
       /\ statusOf(state.tokensBalance, lastAction.tokenId) = TOKEN_DOWNLOAD_STATUS.INVALIDATED
       /\ oldStatusOf(state.tokensBalance, lastAction.tokenId) = statusOf(prev.tokensBalance, lastAction.tokenId)
       /\ \A other \in DOMAIN prev.tokensBalance \ {lastAction.tokenId} :
            state.tokensBalance[other] = prev.tokensBalance[other]
  /\ lastAction.type = types.TOKEN_INVALIDATE_HISTORY =>
       /\ threw = FALSE
       /\ statusOf(state.tokensHistory, lastAction.tokenId) = TOKEN_DOWNLOAD_STATUS.INVALIDATED
       /\ oldStatusOf(state.tokensHistory, lastAction.tokenId) = statusOf(prev.tokensHistory, lastAction.tokenId)
       /\ \A other \in DOMAIN prev.tokensHistory \ {lastAction.tokenId} :
            state.tokensHistory[other] = prev.tokensHistory[other]

\* C21 - Leaving the absent state: a transition that creates a record for a key that
\* was absent from tokensBalance, tokensHistory, proposals or tokensCache gives it
\* status LOADING or READY, never FAILED or INVALIDATED.
C21_AbsentToLoadingOrReady ==
  \A collection \in CachedCollections :
    \A key \in DOMAIN state[collection] \ DOMAIN prev[collection] :
      "status" \in DOMAIN state[collection][key] =>
        state[collection][key].status \in {TOKEN_DOWNLOAD_STATUS.LOADING, TOKEN_DOWNLOAD_STATUS.READY}

\* the requested transitions, with the collection and the key each one targets
RequestedTarget ==
  (types.TOKEN_FETCH_BALANCE_REQUESTED :> [collection |-> "tokensBalance", key |-> "tokenId"])
  @@ (types.TOKEN_FETCH_HISTORY_REQUESTED :> [collection |-> "tokensHistory", key |-> "tokenId"])
  @@ (types.PROPOSAL_FETCH_REQUESTED :> [collection |-> "proposals", key |-> "proposalId"])
  @@ (types.PROPOSAL_TOKEN_FETCH_REQUESTED :> [collection |-> "tokensCache", key |-> "tokenUid"])

\* C22 - Refresh keeps displayed data: a requested transition on an existing record
\* changes only status and oldStatus: every other field the record held (data,
\* updatedAt, password, symbol, name ...) is still there with its previous value, and
\* no field is added.
C22_RefreshKeepsData ==
  lastAction.type \in DOMAIN RequestedTarget =>
    LET collection == RequestedTarget[lastAction.type].collection
        key == lastAction[RequestedTarget[lastAction.type].key]
    IN key \in DOMAIN prev[collection] =>
         LET old == Spread(prev[collection][key])
             new == state[collection][key]
         IN /\ threw = FALSE
            /\ new.status = TOKEN_DOWNLOAD_STATUS.LOADING
            /\ DOMAIN new = DOMAIN old \cup {"status", "oldStatus"}
            /\ \A field \in DOMAIN old \ {"status", "oldStatus"} : new[field] = old[field]

\* a refresh of a READY record that holds data
C22_Witness ==
  /\ lastAction.type \in {types.TOKEN_FETCH_BALANCE_REQUESTED, types.TOKEN_FETCH_HISTORY_REQUESTED}
  /\ LET collection == RequestedTarget[lastAction.type].collection
     IN /\ lastAction.tokenId \in DOMAIN prev[collection]
        /\ statusOf(prev[collection], lastAction.tokenId) = TOKEN_DOWNLOAD_STATUS.READY
        /\ "data" \in DOMAIN prev[collection][lastAction.tokenId]
        /\ state[collection][lastAction.tokenId].data = prev[collection][lastAction.tokenId].data
        /\ state[collection][lastAction.tokenId].status = TOKEN_DOWNLOAD_STATUS.LOADING

\* the status transitions, with the collection and the key field each one targets
StatusTarget ==
  [type \in { types.TOKEN_FETCH_BALANCE_REQUESTED, types.TOKEN_FETCH_BALANCE_SUCCESS,
              types.TOKEN_FETCH_BALANCE_FAILED, types.TOKEN_INVALIDATE_BALANCE }
     |-> [collection |-> "tokensBalance", key |-> "tokenId"]]
  @@ [type \in { types.TOKEN_FETCH_HISTORY_REQUESTED, types.TOKEN_FETCH_HISTORY_SUCCESS,
                 types.TOKEN_FETCH_HISTORY_FAILED, types.TOKEN_INVALIDATE_HISTORY }
        |-> [collection |-> "tokensHistory", key |-> "tokenId"]]
  @@ [type \in { types.PROPOSAL_FETCH_REQUESTED, types.PROPOSAL_FETCH_SUCCESS,
                 types.PROPOSAL_FETCH_FAILED, types.PROPOSAL_REMOVED }
        |-> [collection |-> "proposals", key |-> "proposalId"]]
  @@ [type \in { types.PROPOSAL_TOKEN_FETCH_REQUESTED, types.PROPOSAL_TOKEN_FETCH_SUCCESS,
                 types.PROPOSAL_TOKEN_FETCH_FAILED }
        |-> [collection |-> "tokensCache", key |-> "tokenUid"]]

KeysOf(collection) == IF collection = "proposals" THEN ProposalIds ELSE TokenUids

\* the action of a status transition on a key, with a payload of its documented shape
StatusAction(type, key) ==
  CASE type = types.TOKEN_FETCH_BALANCE_SUCCESS ->
         [type |-> type, tokenId |-> key, data |-> [available |-> 5, locked |-> 0]]
    [] type = types.TOKEN_FETCH_HISTORY_SUCCESS ->
         [type |-> type, tokenId |-> key, data |-> <<Entry("tx1", key)>>]
    [] type = types.PROPOSAL_FETCH_SUCCESS ->
         [type |-> type, proposalId |-> key, data |-> "proposalData1"]
    [] type = types.PROPOSAL_FETCH_FAILED ->
         [type |-> type, proposalId |-> key, errorMessage |-> "error1"]
    [] type = types.PROPOSAL_TOKEN_FETCH_SUCCESS ->
         [type |-> type, tokenUid |-> key, data |-> [symbol |-> "TK1", name |-> "Token1"]]
    [] type = types.PROPOSAL_TOKEN_FETCH_FAILED ->
         [type |-> type, tokenUid |-> key, errorMessage |-> "error1"]
    [] StatusTarget[type].collection = "proposals" -> [type |-> type, proposalId |-> key]
    [] StatusTarget[type].collection = "tokensCache" -> [type |-> type, tokenUid |-> key]
    [] OTHER -> [type |-> type, tokenId |-> key]

\* a state with the updatedAt timestamps of its cached records left out
withoutUpdatedAt(s) ==
  [field \in DOMAIN s |->
     IF field \in CachedCollections
       THEN [key \in DOMAIN s[field] |-> Delete(s[field][key], "updatedAt")]
       ELSE s[field]]

\* C23 - Disjoint-key commutativity: two status transitions (requested, success,
\* failed, invalidate, proposal_removed) that target different keys or different
\* collections yield the same state in either order, updatedAt timestamps aside.
\* The first of the two is the transition just applied to `prev`.
C23_DisjointKeysCommute ==
  (lastAction.type \in DOMAIN StatusTarget /\ threw = FALSE) =>
    LET first == StatusTarget[lastAction.type]
    IN \A type \in DOMAIN StatusTarget :
         \A key \in KeysOf(StatusTarget[type].collection) :
           (StatusTarget[type].collection # first.collection \/ key # lastAction[first.key]) =>
             LET second == StatusAction(type, key)
             IN withoutUpdatedAt(rootReducer(state, second, now)) =
                  withoutUpdatedAt(rootReducer(rootReducer(prev, second, now), lastAction, now))

\* a success on one token of a collection that holds the record of another token
C23_Witness ==
  /\ lastAction.type = types.TOKEN_FETCH_BALANCE_SUCCESS
  /\ \E other \in DOMAIN prev.tokensBalance :
       /\ other # lastAction.tokenId
       /\ state.tokensBalance[other] = prev.tokensBalance[other]
       /\ rootReducer(state, StatusAction(types.TOKEN_FETCH_BALANCE_FAILED, other), now)
            # state

\* C29: once every addToken / unregisterToken call in progress has completed, the
\* store's tokens list holds exactly the tokens registered in the wallet storage
registeredUids == {walletStorage[i] : i \in 1..Len(walletStorage)}
storeUids == {state.tokens[i].uid : i \in 1..Len(state.tokens)}
AllCallsCompleted ==
  /\ \A call \in CallIds : tokenCalls[call].pc \in {"idle", "done"}
  /\ \E call \in CallIds : tokenCalls[call].pc = "done"

C29_TokensMatchStorage == AllCallsCompleted => storeUids = registeredUids

RECURSIVE IsSubsequence(_, _)
IsSubsequence(s, t) ==
  IF s = <<>> THEN TRUE
  ELSE IF t = <<>> THEN FALSE
  ELSE IF Head(s) = Head(t) THEN IsSubsequence(Tail(s), Tail(t))
  ELSE IsSubsequence(s, Tail(t))

invokedResolvers == [i \in 1..Len(invoked) |-> invoked[i][1]]

\* C24: the lock-wallet slot holds the resolver armed last; a resolve calls that
\* resolver with its payload and leaves the slot null; over arm and resolve
\* transitions the resolvers called are, in order, some of the armed ones, each
\* arming called at most once
C24_SingleSlot ==
  /\ IsSubsequence(invokedResolvers, armed)
  /\ state.lockWalletPromise # null =>
       /\ armed # <<>>
       /\ state.lockWalletPromise = armed[Len(armed)]
  /\ (lastAction.type = "lock_wallet_for_result" /\ threw = FALSE) =>
       state.lockWalletPromise = lastAction.payload
  /\ (lastAction.type = "resolve_lock_wallet_promise" /\ threw = FALSE) =>
       /\ state.lockWalletPromise = null
       /\ invoked # <<>>
       /\ invoked[Len(invoked)] = <<armed[Len(armed)], lastAction.payload>>
       /\ invoked[Len(invoked)][1] = prev.lockWalletPromise

\* r1 armed, then r2 with no resolve in between, then a resolve: r2 is called once
\* and r1 never
C24_Witness ==
  /\ armed = <<"r1", "r2">>
  /\ invoked = << <<"r2", "pin">> >>
  /\ lastAction.type = "resolve_lock_wallet_promise"
  /\ threw = FALSE
  /\ state.lockWalletPromise = null

\* C25: remove_token_metadata(uid) leaves tokenMetadata without uid; a token whose
\* balance data sums to zero loses its tokensBalance entry too, any other balance
\* keeps tokensBalance as it was; the metadata and balances of the other tokens are
\* unchanged
C25_MetadataRemoval ==
  (lastAction.type = "remove_token_metadata" /\ threw = FALSE) =>
    LET uid == lastAction.payload
    IN /\ uid \notin DOMAIN state.tokenMetadata
       /\ \A other \in DOMAIN prev.tokenMetadata \ {uid} :
            /\ other \in DOMAIN state.tokenMetadata
            /\ state.tokenMetadata[other] = prev.tokenMetadata[other]
       /\ DOMAIN state.tokenMetadata \subseteq DOMAIN prev.tokenMetadata
       /\ IF HoldsZeroBalance(prev, uid)
            THEN /\ uid \notin DOMAIN state.tokensBalance
                 /\ DOMAIN state.tokensBalance = DOMAIN prev.tokensBalance \ {uid}
                 /\ \A other \in DOMAIN state.tokensBalance :
                      state.tokensBalance[other] = prev.tokensBalance[other]
            ELSE state.tokensBalance = prev.tokensBalance

UniqueTxIds(history) ==
  \A i, j \in 1..Len(history) : i # j => history[i].tx_id # history[j].tx_id
CountTx(history, txId) == Cardinality({i \in 1..Len(history) : history[i].tx_id = txId})
AllHistoriesUnique(s) == \A tokenUid \in DOMAIN s.tokensHistory : UniqueTxIds(HistoryOf(s, tokenUid))

\* the histories and pages the last transition carried have no duplicate txId, and
\* a page has no txId the token's history already held
WellFormedHistoryInput ==
  CASE lastAction.type = "update_token_history" ->
         /\ UniqueTxIds(lastAction.payload.newHistory)
         /\ \A i \in 1..Len(lastAction.payload.newHistory) :
              ~HasTx(HistoryOf(prev, lastAction.payload.token), lastAction.payload.newHistory[i].tx_id)
    [] lastAction.type = types.TOKEN_FETCH_HISTORY_SUCCESS -> UniqueTxIds(lastAction.data)
    [] lastAction.type = "partially_update_history_and_balance" ->
         \A tokenUid \in DOMAIN lastAction.payload.tokensHistory :
           UniqueTxIds(get(lastAction.payload.tokensHistory[tokenUid], "data", <<>>))
    [] OTHER -> TRUE

\* C26: a transition whose histories and pages are well formed keeps every token
\* history free of repeated txIds; update_tx and update_tx_history never add an
\* entry for a txId the history already holds
C26_HistoryUniqueness ==
  /\ (AllHistoriesUnique(prev) /\ WellFormedHistoryInput) => AllHistoriesUnique(state)
  /\ lastAction.type \in {"update_tx", types.UPDATE_TX_HISTORY} =>
       \A tokenUid \in DOMAIN state.tokensHistory : \A txId \in TxIds :
         HasTx(HistoryOf(prev, tokenUid), txId) =>
           CountTx(HistoryOf(state, tokenUid), txId) <= CountTx(HistoryOf(prev, tokenUid), txId)

\* update_tx_history for a tx that a two-entry history holds
C26_Witness ==
  /\ lastAction.type = types.UPDATE_TX_HISTORY
  /\ threw = FALSE
  /\ state # prev
  /\ Len(HistoryOf(state, lastAction.payload.tokenId)) = 2
  /\ HasTx(HistoryOf(prev, lastAction.payload.tokenId), lastAction.payload.tx.tx_id)

\* C27: update_tx_history keeps the length and the order of the token's history.
\* With no record for the token the state is the one before; with a record, the
\* first entry whose tx_id is the tx's is replaced by the entry built from the tx
\* and every other entry, the record's other fields, the other tokens' records and
\* the other fields of the state are as before; a record with no data makes the
\* handler raise, and the state stays as it was
C27_UpdateTxHistoryFrame ==
  lastAction.type = types.UPDATE_TX_HISTORY =>
    LET tokenId == lastAction.payload.tokenId
        tx == lastAction.payload.tx
    IN IF tokenId \notin DOMAIN prev.tokensHistory
         THEN state = prev /\ threw = FALSE
         ELSE IF threw
           THEN state = prev /\ "data" \notin DOMAIN prev.tokensHistory[tokenId]
           ELSE LET old == prev.tokensHistory[tokenId].data
                    new == state.tokensHistory[tokenId].data
                    index == findIndex(old, "tx_id", tx.tx_id)
                IN /\ Len(new) = Len(old)
                   /\ \A i \in 1..Len(old) :
                        /\ new[i].tx_id = old[i].tx_id
                        /\ new[i] = IF i = index + 1
                                      THEN getTxHistoryFromWSTx(tx, tokenId, lastAction.payload.balance)
                                      ELSE old[i]
                   /\ state = Assign(prev, [tokensHistory |->
                                Assign(prev.tokensHistory,
                                       tokenId :> Assign(prev.tokensHistory[tokenId], [data |-> new]))])
                   /\ \A field \in {"status", "oldStatus", "updatedAt"} \cap DOMAIN prev.tokensHistory[tokenId] :
                        state.tokensHistory[tokenId][field] = prev.tokensHistory[tokenId][field]

\* the second entry of a two-entry history is rebuilt, the first one stays
C27_Witness ==
  /\ lastAction.type = types.UPDATE_TX_HISTORY
  /\ threw = FALSE
  /\ lastAction.payload.tokenId \in DOMAIN prev.tokensHistory
  /\ lastAction.payload.tx.tx_id = "tx2"
  /\ Len(prev.tokensHistory[lastAction.payload.tokenId].data) = 2
  /\ state.tokensHistory[lastAction.payload.tokenId].data[1] =
       prev.tokensHistory[lastAction.payload.tokenId].data[1]
  /\ state.tokensHistory[lastAction.payload.tokenId].data[2] #
       prev.tokensHistory[lastAction.payload.tokenId].data[2]
  /\ state.tokensHistory[lastAction.payload.tokenId].status = TOKEN_DOWNLOAD_STATUS.READY

\* C28: whenever walletStartState is READY the stored start action, which carries
\* the words and the pin, is null
C28_SecretNotRetained ==
  get(state, "walletStartState", undefined) = WALLET_STATUS.READY =>
    state.startWalletAction = nullObject

\* a start that failed with the action kept, then succeeded: the action is gone
C28_Witness ==
  /\ lastAction.type = types.START_WALLET_SUCCESS
  /\ get(prev, "walletStartState", undefined) = WALLET_STATUS.FAILED
  /\ prev.startWalletAction \in StartWalletActions
  /\ state.walletStartState = WALLET_STATUS.READY
  /\ threw = FALSE

====
